---- MODULE Spec2Model ----
(***************************************************************************)
(* A model of actions-repo-file-sync: the content-substitution engine      *)
(* (GitHubClient._substitute_env_vars), the dual-path fetch                *)
(* (GitHubClient.download_file), the file write (GitHubClient._save_file)  *)
(* and the orchestrator (RepoFileSync.sync / _sync_source).                *)
(*                                                                         *)
(* Bytes are integers 0..255, text is a sequence of code points, and a     *)
(* Python exception is the "exc" field of a result record.                 *)
(***************************************************************************)
EXTENDS Integers, Sequences, FiniteSets, TLC

(***************************************************************************)
(* Characters and strings.                                                 *)
(***************************************************************************)

\* The printable ASCII characters, code points 32..126 in order (the double
\* quote and the backtick are spelled out).
AsciiChars ==
  << " ", "!", "dquote", "#", "$", "%", "&", "'", "(", ")", "*", "+", ",", "-", ".", "/",
     "0", "1", "2", "3", "4", "5", "6", "7", "8", "9", ":", ";", "<", "=", ">", "?",
     "@", "A", "B", "C", "D", "E", "F", "G", "H", "I", "J", "K", "L", "M", "N", "O",
     "P", "Q", "R", "S", "T", "U", "V", "W", "X", "Y", "Z", "[", "\\", "]", "^", "_",
     "backtick", "a", "b", "c", "d", "e", "f", "g", "h", "i", "j", "k", "l", "m", "n", "o",
     "p", "q", "r", "s", "t", "u", "v", "w", "x", "y", "z", "{", "|", "}", "~" >>

\* The code point of a printable ASCII character.
Ord(c) == 31 + (CHOOSE i \in 1..Len(AsciiChars) : AsciiChars[i] = c)

\* The text (sequence of code points) spelled by a tuple of characters.
Str(t) == [i \in 1..Len(t) |-> Ord(t[i])]

IsDigit(c) == c >= 48 /\ c <= 57
IsOctDigit(c) == c >= 48 /\ c <= 55
IsAsciiLetter(c) == (c >= 65 /\ c <= 90) \/ (c >= 97 /\ c <= 122)
IsWordChar(c) == IsAsciiLetter(c) \/ IsDigit(c) \/ c = 95
IsSpaceChar(c) == c \in {32, 9, 10, 11, 12, 13}

\* str.lower() on one character (ASCII letters; the other modelled code
\* points have no case).
LowerChar(c) == IF c >= 65 /\ c <= 90 THEN c + 32 ELSE c
Lower(s) == [i \in 1..Len(s) |-> LowerChar(s[i])]

\* Python's (x in s) for strings: s has x as a substring.
Contains(s, x) ==
  \E i \in 1..(Len(s) - Len(x) + 1) : SubSeq(s, i, i + Len(x) - 1) = x

(***************************************************************************)
(* UTF-8: bytes.decode("utf-8") and str.encode("utf-8").                   *)
(***************************************************************************)

IsCont(b) == b >= 128 /\ b <= 191

\* The number of bytes of the well-formed UTF-8 sequence that starts at
\* b[i], or 0 when no well-formed sequence starts there.
Utf8SeqLen(b, i) ==
  LET n  == Len(b)
      b0 == b[i]
      c1 == IF i + 1 <= n THEN b[i + 1] ELSE 0
      c2 == IF i + 2 <= n THEN b[i + 2] ELSE 0
      c3 == IF i + 3 <= n THEN b[i + 3] ELSE 0
  IN  IF b0 < 128 THEN 1
      ELSE IF b0 >= 194 /\ b0 <= 223
        THEN IF IsCont(c1) THEN 2 ELSE 0
      ELSE IF b0 = 224
        THEN IF c1 >= 160 /\ c1 <= 191 /\ IsCont(c2) THEN 3 ELSE 0
      ELSE IF b0 = 237
        THEN IF c1 >= 128 /\ c1 <= 159 /\ IsCont(c2) THEN 3 ELSE 0
      ELSE IF b0 >= 225 /\ b0 <= 239
        THEN IF IsCont(c1) /\ IsCont(c2) THEN 3 ELSE 0
      ELSE IF b0 = 240
        THEN IF c1 >= 144 /\ c1 <= 191 /\ IsCont(c2) /\ IsCont(c3) THEN 4 ELSE 0
      ELSE IF b0 >= 241 /\ b0 <= 243
        THEN IF IsCont(c1) /\ IsCont(c2) /\ IsCont(c3) THEN 4 ELSE 0
      ELSE IF b0 = 244
        THEN IF c1 >= 128 /\ c1 <= 143 /\ IsCont(c2) /\ IsCont(c3) THEN 4 ELSE 0
      ELSE 0

\* The code point of the well-formed sequence of k bytes at b[i].
Utf8CodePoint(b, i, k) ==
  CASE k = 1 -> b[i]
    [] k = 2 -> (b[i] - 192) * 64 + (b[i + 1] - 128)
    [] k = 3 -> (b[i] - 224) * 4096 + (b[i + 1] - 128) * 64 + (b[i + 2] - 128)
    [] k = 4 -> (b[i] - 240) * 262144 + (b[i + 1] - 128) * 4096
                  + (b[i + 2] - 128) * 64 + (b[i + 3] - 128)

RECURSIVE Utf8DecodeFrom(_, _)
Utf8DecodeFrom(b, i) ==
  IF i > Len(b) THEN [ok |-> TRUE, text |-> <<>>]
  ELSE LET k == Utf8SeqLen(b, i)
       IN  IF k = 0 THEN [ok |-> FALSE, text |-> <<>>]
           ELSE LET rest == Utf8DecodeFrom(b, i + k)
                IN  IF rest.ok
                      THEN [ok |-> TRUE,
                            text |-> <<Utf8CodePoint(b, i, k)>> \o rest.text]
                      ELSE rest

\* content.decode("utf-8"): ok is FALSE where Python raises UnicodeDecodeError.
Utf8Decode(b) == Utf8DecodeFrom(b, 1)

Utf8EncodeChar(c) ==
  IF c < 128 THEN <<c>>
  ELSE IF c < 2048 THEN <<192 + (c \div 64), 128 + (c % 64)>>
  ELSE IF c < 65536
    THEN <<224 + (c \div 4096), 128 + ((c \div 64) % 64), 128 + (c % 64)>>
  ELSE <<240 + (c \div 262144), 128 + ((c \div 4096) % 64),
         128 + ((c \div 64) % 64), 128 + (c % 64)>>

RECURSIVE Utf8Encode(_)
Utf8Encode(s) ==
  IF s = <<>> THEN <<>> ELSE Utf8EncodeChar(Head(s)) \o Utf8Encode(Tail(s))

(***************************************************************************)
(* str.replace(old, new): every non-overlapping occurrence, left to right. *)
(***************************************************************************)

RECURSIVE ReplaceFrom(_, _, _, _)
ReplaceFrom(s, old, new, i) ==
  IF i > Len(s) THEN <<>>
  ELSE IF i + Len(old) - 1 <= Len(s) /\ SubSeq(s, i, i + Len(old) - 1) = old
    THEN new \o ReplaceFrom(s, old, new, i + Len(old))
    ELSE <<s[i]>> \o ReplaceFrom(s, old, new, i + 1)

\* With an empty old, Python inserts new before every character and at
\* the end.
RECURSIVE Interleave(_, _)
Interleave(s, new) ==
  IF s = <<>> THEN new ELSE new \o <<Head(s)>> \o Interleave(Tail(s), new)

StrReplace(s, old, new) ==
  IF old = <<>> THEN Interleave(s, new) ELSE ReplaceFrom(s, old, new, 1)

(***************************************************************************)
(* re.compile(pattern, flags): the pattern text parsed into a tree, or a   *)
(* compile error (re.error).  The dialect modelled: literals, ".", "^",    *)
(* "$", escapes (\d \w \s \D \W \S \b \B \A \Z, the control escapes,      *)
(* \1..\9, escaped punctuation), character sets, groups "(...)" and        *)
(* "(?:...)", alternation, and the quantifiers * + ? with their lazy       *)
(* forms.  Counted repeats, octal and hex escapes, named groups and        *)
(* look-around are outside it.                                             *)
(***************************************************************************)

ChLParen == Ord("(")
ChRParen == Ord(")")
ChLBracket == Ord("[")
ChRBracket == Ord("]")
ChBackslash == Ord("\\")
ChBar == Ord("|")
ChStar == Ord("*")
ChPlus == Ord("+")
ChQuestion == Ord("?")
ChDot == Ord(".")
ChCaret == Ord("^")
ChDollar == Ord("$")
ChMinus == Ord("-")
ChColon == Ord(":")
ChZero == Ord("0")

Quantifiers == {ChStar, ChPlus, ChQuestion}
CategoryLetters == {Ord("d"), Ord("D"), Ord("w"), Ord("W"), Ord("s"), Ord("S")}

PErr == [ok |-> FALSE]
POk(node, pos, ng) == [ok |-> TRUE, node |-> node, pos |-> pos, ng |-> ng]

\* The escape \e outside a character set, with ng groups opened so far.
ParseEscape(e, ng) ==
  IF e \in CategoryLetters THEN [ok |-> TRUE, node |-> [t |-> "cat", k |-> e]]
  ELSE IF e = Ord("n") THEN [ok |-> TRUE, node |-> [t |-> "lit", c |-> 10]]
  ELSE IF e = Ord("t") THEN [ok |-> TRUE, node |-> [t |-> "lit", c |-> 9]]
  ELSE IF e = Ord("r") THEN [ok |-> TRUE, node |-> [t |-> "lit", c |-> 13]]
  ELSE IF e = Ord("a") THEN [ok |-> TRUE, node |-> [t |-> "lit", c |-> 7]]
  ELSE IF e = Ord("f") THEN [ok |-> TRUE, node |-> [t |-> "lit", c |-> 12]]
  ELSE IF e = Ord("v") THEN [ok |-> TRUE, node |-> [t |-> "lit", c |-> 11]]
  ELSE IF e = Ord("b") THEN [ok |-> TRUE, node |-> [t |-> "wordb", neg |-> FALSE]]
  ELSE IF e = Ord("B") THEN [ok |-> TRUE, node |-> [t |-> "wordb", neg |-> TRUE]]
  ELSE IF e = Ord("A") THEN [ok |-> TRUE, node |-> [t |-> "bos"]]
  ELSE IF e = Ord("Z") THEN [ok |-> TRUE, node |-> [t |-> "eos"]]
  ELSE IF e = ChZero THEN [ok |-> TRUE, node |-> [t |-> "lit", c |-> 0]]
  ELSE IF IsDigit(e)
    THEN IF e - ChZero <= ng
           THEN [ok |-> TRUE, node |-> [t |-> "backref", n |-> e - ChZero]]
           ELSE PErr   \* invalid group reference
  ELSE IF IsAsciiLetter(e) THEN PErr   \* bad escape
  ELSE [ok |-> TRUE, node |-> [t |-> "lit", c |-> e]]

\* One member of a character set starting at p[i]: a character or an escape.
\* Gives the member and the position after it.
ClassMember(p, i) ==
  IF p[i] = ChBackslash
    THEN IF i = Len(p) THEN PErr
         ELSE LET e == p[i + 1]
              IN  IF e \in CategoryLetters
                    THEN [ok |-> TRUE, cat |-> TRUE, c |-> e, pos |-> i + 2]
                  ELSE IF e = Ord("n")
                    THEN [ok |-> TRUE, cat |-> FALSE, c |-> 10, pos |-> i + 2]
                  ELSE IF e = Ord("t")
                    THEN [ok |-> TRUE, cat |-> FALSE, c |-> 9, pos |-> i + 2]
                  ELSE IF e = Ord("r")
                    THEN [ok |-> TRUE, cat |-> FALSE, c |-> 13, pos |-> i + 2]
                  ELSE IF e = Ord("a")
                    THEN [ok |-> TRUE, cat |-> FALSE, c |-> 7, pos |-> i + 2]
                  ELSE IF e = Ord("b")
                    THEN [ok |-> TRUE, cat |-> FALSE, c |-> 8, pos |-> i + 2]
                  ELSE IF e = Ord("f")
                    THEN [ok |-> TRUE, cat |-> FALSE, c |-> 12, pos |-> i + 2]
                  ELSE IF e = Ord("v")
                    THEN [ok |-> TRUE, cat |-> FALSE, c |-> 11, pos |-> i + 2]
                  ELSE IF IsAsciiLetter(e) \/ IsDigit(e) THEN PErr
                  ELSE [ok |-> TRUE, cat |-> FALSE, c |-> e, pos |-> i + 2]
    ELSE [ok |-> TRUE, cat |-> FALSE, c |-> p[i], pos |-> i + 1]

\* The members of a character set from p[i] up to its closing bracket; first
\* is TRUE at the first member, where a closing bracket is a literal.
RECURSIVE ClassItems(_, _, _, _)
ClassItems(p, i, first, acc) ==
  IF i > Len(p) THEN PErr   \* unterminated character set
  ELSE IF p[i] = ChRBracket /\ ~first THEN [ok |-> TRUE, items |-> acc, pos |-> i + 1]
  ELSE LET lo == ClassMember(p, i)
       IN  IF ~lo.ok THEN PErr
           ELSE IF lo.pos + 1 <= Len(p) /\ p[lo.pos] = ChMinus
                   /\ p[lo.pos + 1] # ChRBracket
             THEN LET hi == ClassMember(p, lo.pos + 1)
                  IN  IF ~hi.ok \/ lo.cat \/ hi.cat THEN PErr   \* bad range
                      ELSE IF hi.c < lo.c THEN PErr             \* bad range
                      ELSE ClassItems(p, hi.pos, FALSE,
                             Append(acc, [k |-> "range", lo |-> lo.c, hi |-> hi.c]))
           ELSE IF lo.cat
             THEN ClassItems(p, lo.pos, FALSE, Append(acc, [k |-> "cat", c |-> lo.c]))
           ELSE ClassItems(p, lo.pos, FALSE,
                  Append(acc, [k |-> "range", lo |-> lo.c, hi |-> lo.c]))

\* A character set; p[i] is the character after the opening bracket.
ParseClass(p, i, ng) ==
  LET neg == i <= Len(p) /\ p[i] = ChCaret
      r   == ClassItems(p, IF neg THEN i + 1 ELSE i, TRUE, <<>>)
  IN  IF ~r.ok THEN PErr
      ELSE POk([t |-> "class", neg |-> neg, items |-> r.items], r.pos, ng)

RECURSIVE ParseAlt(_, _, _)
RECURSIVE ParseAltRest(_, _, _, _)
RECURSIVE ParseSeq(_, _, _, _)
RECURSIVE ParseAtom(_, _, _)

\* A group whose body parsed to inner; ng groups were open before it.
CloseGroup(p, ng, nocap, inner) ==
  IF ~inner.ok THEN PErr
  ELSE IF inner.pos > Len(p) THEN PErr   \* missing )
  ELSE IF nocap THEN POk(inner.node, inner.pos + 1, inner.ng)
  ELSE POk([t |-> "group", n |-> ng + 1, e |-> inner.node],
           inner.pos + 1, inner.ng)

\* The group opened at p[i]: "(...)" or "(?:...)".
ParseGroup(p, i, ng, ext, nocap) ==
  IF ext /\ ~nocap THEN PErr
  ELSE CloseGroup(p, ng, nocap,
                  ParseAlt(p, IF nocap THEN i + 3 ELSE i + 1,
                              IF nocap THEN ng ELSE ng + 1))

\* The escape at p[i], a backslash.
ParseEscapeAt(p, i, ng, e) ==
  IF e.ok THEN POk(e.node, i + 2, ng) ELSE PErr

\* One atom at p[i], which is neither "|" nor ")".
ParseAtom(p, i, ng) ==
  IF p[i] = ChLParen
    THEN ParseGroup(p, i, ng,
                    i + 1 <= Len(p) /\ p[i + 1] = ChQuestion,
                    i + 2 <= Len(p) /\ p[i + 1] = ChQuestion /\ p[i + 2] = ChColon)
  ELSE IF p[i] = ChLBracket THEN ParseClass(p, i + 1, ng)
  ELSE IF p[i] = ChBackslash
    THEN IF i = Len(p) THEN PErr   \* bad escape (end of pattern)
         ELSE ParseEscapeAt(p, i, ng, ParseEscape(p[i + 1], ng))
  ELSE IF p[i] \in Quantifiers THEN PErr   \* nothing to repeat
  ELSE IF p[i] = ChDot THEN POk([t |-> "any"], i + 1, ng)
  ELSE IF p[i] = ChCaret THEN POk([t |-> "bol"], i + 1, ng)
  ELSE IF p[i] = ChDollar THEN POk([t |-> "eol"], i + 1, ng)
  ELSE POk([t |-> "lit", c |-> p[i]], i + 1, ng)

\* The atom a followed by the quantifier q, the pattern going on at nxt.
Repeat(p, acc, a, q, lazy, nxt) ==
  IF a.node.t \in {"bol", "eol", "bos", "eos", "wordb"}
    THEN PErr                                \* nothing to repeat
  ELSE IF nxt <= Len(p) /\ p[nxt] \in Quantifiers
    THEN PErr                                \* multiple repeat
  ELSE ParseSeq(p, nxt, a.ng,
         Append(acc, [t |-> "rep",
                      min |-> IF q = ChPlus THEN 1 ELSE 0,
                      many |-> q # ChQuestion,
                      lazy |-> lazy,
                      e |-> a.node]))

\* The sequence acc extended by the atom a and its quantifier, if any.
ParseSeqAfter(p, acc, a) ==
  IF ~a.ok THEN PErr
  ELSE IF a.pos <= Len(p) /\ p[a.pos] \in Quantifiers
    THEN IF a.pos + 1 <= Len(p) /\ p[a.pos + 1] = ChQuestion
           THEN Repeat(p, acc, a, p[a.pos], TRUE, a.pos + 2)
           ELSE Repeat(p, acc, a, p[a.pos], FALSE, a.pos + 1)
  ELSE ParseSeq(p, a.pos, a.ng, Append(acc, a.node))

\* A sequence of quantified atoms, up to "|", ")" or the end of the pattern.
ParseSeq(p, i, ng, acc) ==
  IF i > Len(p) \/ p[i] \in {ChBar, ChRParen}
    THEN POk([t |-> "seq", es |-> acc], i, ng)
  ELSE ParseSeqAfter(p, acc, ParseAtom(p, i, ng))

\* The alternatives acc extended by the branch s.
ParseAltAfter(p, acc, s) ==
  IF ~s.ok THEN PErr ELSE ParseAltRest(p, s.pos, s.ng, Append(acc, s.node))

ParseAltRest(p, i, ng, acc) ==
  IF i <= Len(p) /\ p[i] = ChBar
    THEN ParseAltAfter(p, acc, ParseSeq(p, i + 1, ng, <<>>))
    ELSE POk(IF Len(acc) = 1 THEN acc[1] ELSE [t |-> "alt", es |-> acc], i, ng)

ParseAlt(p, i, ng) == ParseAltAfter(p, <<>>, ParseSeq(p, i, ng, <<>>))

\* The whole pattern parsed to r.
CompileResult(p, r) ==
  IF ~r.ok THEN PErr
  ELSE IF r.pos <= Len(p) THEN PErr   \* unbalanced parenthesis
  ELSE [ok |-> TRUE, node |-> r.node, ng |-> r.ng]

\* re.compile(name, flags): ok is FALSE where Python raises re.error.
ReCompile(p) == CompileResult(p, ParseAlt(p, 1, 0))

(***************************************************************************)
(* Matching.  A match attempt yields the sequence of its outcomes in the   *)
(* order a backtracking matcher tries them; an outcome is the position     *)
(* after the match and the capture groups, each <<start, end>> (end        *)
(* exclusive) or <<0, 0>> when the group took no part.                     *)
(***************************************************************************)

NoFlags == [i |-> FALSE, m |-> FALSE, s |-> FALSE]

CategoryMatches(k, c) ==
  CASE k = Ord("d") -> IsDigit(c)
    [] k = Ord("D") -> ~IsDigit(c)
    [] k = Ord("w") -> IsWordChar(c)
    [] k = Ord("W") -> ~IsWordChar(c)
    [] k = Ord("s") -> IsSpaceChar(c)
    [] k = Ord("S") -> ~IsSpaceChar(c)

UpperChar(c) == IF c >= 97 /\ c <= 122 THEN c - 32 ELSE c

ItemMatches(it, c, fl) ==
  IF it.k = "cat" THEN CategoryMatches(it.c, c)
  ELSE \/ it.lo <= c /\ c <= it.hi
       \/ fl.i /\ it.lo <= LowerChar(c) /\ LowerChar(c) <= it.hi
       \/ fl.i /\ it.lo <= UpperChar(c) /\ UpperChar(c) <= it.hi

\* Whether the one-character node n matches the character c.
CharMatches(n, c, fl) ==
  CASE n.t = "lit" -> IF fl.i THEN LowerChar(c) = LowerChar(n.c) ELSE c = n.c
    [] n.t = "any" -> fl.s \/ c # 10
    [] n.t = "cat" -> CategoryMatches(n.k, c)
    [] n.t = "class" ->
         (\E j \in 1..Len(n.items) : ItemMatches(n.items[j], c, fl)) # n.neg

TextEq(a, b, fl) == IF fl.i THEN Lower(a) = Lower(b) ELSE a = b

RECURSIVE Match(_, _, _, _, _)
RECURSIVE MatchSeq(_, _, _, _, _, _)
RECURSIVE MatchSeqOver(_, _, _, _, _, _)
RECURSIVE MatchAlt(_, _, _, _, _, _)
RECURSIVE MatchMore(_, _, _, _, _)
RECURSIVE MatchMoreOver(_, _, _, _, _, _)

SetGroup(rs, g, from) ==
  [j \in 1..Len(rs) |->
     [i |-> rs[j].i, caps |-> [rs[j].caps EXCEPT ![g] = <<from, rs[j].i>>]]]

\* The outcomes more together with the outcome that repeats no further: a
\* greedy quantifier tries it last, a lazy one first.
OrSkip(lazy, i, caps, more) ==
  IF lazy THEN << [i |-> i, caps |-> caps] >> \o more
  ELSE more \o << [i |-> i, caps |-> caps] >>

\* The outcomes of the quantified node n having matched n.e once.
RepFirst(n, s, i, fl, once) ==
  IF n.many THEN MatchMoreOver(once, 1, n, s, i, fl) ELSE once

\* The outcomes of the quantified node n at position i, more being those
\* with at least one repetition.
RepOutcomes(n, i, caps, more) ==
  IF n.min = 1 THEN more ELSE OrSkip(n.lazy, i, caps, more)

Match(n, s, i, caps, fl) ==
  CASE n.t \in {"lit", "any", "cat", "class"} ->
         IF i <= Len(s) /\ CharMatches(n, s[i], fl)
           THEN << [i |-> i + 1, caps |-> caps] >> ELSE << >>
    [] n.t = "bol" ->
         IF i = 1 \/ (fl.m /\ s[i - 1] = 10)
           THEN << [i |-> i, caps |-> caps] >> ELSE << >>
    [] n.t = "eol" ->
         IF \/ i = Len(s) + 1
            \/ i = Len(s) /\ s[i] = 10
            \/ fl.m /\ i <= Len(s) /\ s[i] = 10
           THEN << [i |-> i, caps |-> caps] >> ELSE << >>
    [] n.t = "bos" ->
         IF i = 1 THEN << [i |-> i, caps |-> caps] >> ELSE << >>
    [] n.t = "eos" ->
         IF i = Len(s) + 1 THEN << [i |-> i, caps |-> caps] >> ELSE << >>
    [] n.t = "wordb" ->
         LET before == i > 1 /\ IsWordChar(s[i - 1])
             after  == i <= Len(s) /\ IsWordChar(s[i])
         IN  IF s # << >> /\ (before # after) # n.neg   \* \B fails on empty text
               THEN << [i |-> i, caps |-> caps] >> ELSE << >>
    [] n.t = "backref" ->
         LET g == caps[n.n]
             k == g[2] - g[1]
         IN  IF g # <<0, 0>> /\ i + k - 1 <= Len(s)
                /\ TextEq(SubSeq(s, i, i + k - 1), SubSeq(s, g[1], g[2] - 1), fl)
               THEN << [i |-> i + k, caps |-> caps] >> ELSE << >>
    [] n.t = "group" -> SetGroup(Match(n.e, s, i, caps, fl), n.n, i)
    [] n.t = "seq" -> MatchSeq(n.es, 1, s, i, caps, fl)
    [] n.t = "alt" -> MatchAlt(n.es, 1, s, i, caps, fl)
    [] n.t = "rep" ->
         RepOutcomes(n, i, caps, RepFirst(n, s, i, fl, Match(n.e, s, i, caps, fl)))

\* The elements es[k..] in sequence from position i.
MatchSeq(es, k, s, i, caps, fl) ==
  IF k > Len(es) THEN << [i |-> i, caps |-> caps] >>
  ELSE MatchSeqOver(Match(es[k], s, i, caps, fl), 1, es, k + 1, s, fl)

MatchSeqOver(rs, j, es, k, s, fl) ==
  IF j > Len(rs) THEN << >>
  ELSE MatchSeq(es, k, s, rs[j].i, rs[j].caps, fl)
         \o MatchSeqOver(rs, j + 1, es, k, s, fl)

MatchAlt(es, k, s, i, caps, fl) ==
  IF k > Len(es) THEN << >>
  ELSE Match(es[k], s, i, caps, fl) \o MatchAlt(es, k + 1, s, i, caps, fl)

\* Zero or more further repetitions of n.e from position i.
MatchMore(n, s, i, caps, fl) ==
  OrSkip(n.lazy, i, caps, MatchMoreOver(Match(n.e, s, i, caps, fl), 1, n, s, i, fl))

\* After each outcome rs[j..] of one repetition that began at position from,
\* the further repetitions; a repetition that matched nothing ends the loop
\* (its captures stand).
MatchMoreOver(rs, j, n, s, from, fl) ==
  IF j > Len(rs) THEN << >>
  ELSE (IF rs[j].i > from THEN MatchMore(n, s, rs[j].i, rs[j].caps, fl)
        ELSE << rs[j] >>)
         \o MatchMoreOver(rs, j + 1, n, s, from, fl)

NoCaps(ng) == [g \in 1..ng |-> <<0, 0>>]

FirstAdvancing(rs, st) ==
  LET J == {j \in 1..Len(rs) : rs[j].i > st}
  IN  IF J = {} THEN << >> ELSE << rs[CHOOSE j \in J : \A k \in J : j <= k] >>

\* The outcomes a search at st accepts: when must is TRUE an empty match at
\* st itself is not accepted.
Accepted(all, st, must) == IF must THEN FirstAdvancing(all, st) ELSE all

RECURSIVE Search(_, _, _, _, _, _)

\* The search at st having accepted rs: its first outcome, or the search
\* moved on by one character.
SearchFound(node, ng, s, st, fl, rs) ==
  IF rs # << >>
    THEN << [from |-> st, i |-> rs[1].i, caps |-> rs[1].caps] >>
  ELSE IF st > Len(s) THEN << >>
  ELSE Search(node, ng, s, st + 1, FALSE, fl)

\* The first match at or after position st.  Gives <<>> or
\* <<[from, i, caps]>>.
Search(node, ng, s, st, must, fl) ==
  SearchFound(node, ng, s, st, fl,
              Accepted(Match(node, s, st, NoCaps(ng), fl), st, must))

(***************************************************************************)
(* The replacement template of pattern.sub(replacement, text).             *)
(***************************************************************************)

TemplateEscapes ==
  [c \in {Ord("a"), Ord("b"), Ord("f"), Ord("n"), Ord("r"), Ord("t"), Ord("v"),
          ChBackslash} |->
     CASE c = Ord("a") -> 7  [] c = Ord("b") -> 8  [] c = Ord("f") -> 12
       [] c = Ord("n") -> 10 [] c = Ord("r") -> 13 [] c = Ord("t") -> 9
       [] c = Ord("v") -> 11 [] c = ChBackslash -> 92]

OctVal(c) == c - ChZero

TFail == [ok |-> FALSE]
TPart(part, nxt) == [ok |-> TRUE, part |-> part, nxt |-> nxt]

\* The escape at r[i] (a backslash) followed by c, d1 and d2 (0 past the end
\* of the template), for a pattern with ng groups: the part it stands for
\* and the position after it.
TemplateEscape(i, ng, c, d1, d2) ==
  IF c = Ord("g") THEN TFail                       \* named references: not modelled
  ELSE IF c = ChZero
    THEN IF IsOctDigit(d1) /\ IsOctDigit(d2)
           THEN TPart([lit |-> <<(OctVal(d1) * 8 + OctVal(d2)) % 256>>], i + 4)
         ELSE IF IsOctDigit(d1)
           THEN TPart([lit |-> <<OctVal(d1)>>], i + 3)
         ELSE TPart([lit |-> <<0>>], i + 2)
  ELSE IF IsDigit(c)
    THEN IF IsDigit(d1)
           THEN IF IsOctDigit(c) /\ IsOctDigit(d1) /\ IsOctDigit(d2)
                  THEN IF OctVal(c) * 64 + OctVal(d1) * 8 + OctVal(d2) > 255
                         THEN TFail
                       ELSE TPart([lit |-> <<OctVal(c) * 64 + OctVal(d1) * 8
                                              + OctVal(d2)>>], i + 4)
                ELSE IF OctVal(c) * 10 + OctVal(d1) > ng
                  THEN TFail                       \* invalid group reference
                ELSE TPart([grp |-> OctVal(c) * 10 + OctVal(d1)], i + 3)
         ELSE IF OctVal(c) > ng THEN TFail         \* invalid group reference
         ELSE TPart([grp |-> OctVal(c)], i + 2)
  ELSE IF c \in DOMAIN TemplateEscapes
    THEN TPart([lit |-> <<TemplateEscapes[c]>>], i + 2)
  ELSE IF IsAsciiLetter(c) THEN TFail              \* bad escape
  ELSE TPart([lit |-> <<ChBackslash, c>>], i + 2)

Prepend(part, rest) ==
  IF rest.ok THEN [ok |-> TRUE, parts |-> <<part>> \o rest.parts] ELSE rest

RECURSIVE TemplateParts(_, _, _)

TemplateAfter(r, ng, e) ==
  IF ~e.ok THEN TFail ELSE Prepend(e.part, TemplateParts(r, e.nxt, ng))

\* The parts of the template r from r[i] on, for a pattern with ng groups:
\* literal characters [lit] and group references [grp]; ok is FALSE where
\* Python raises re.error.
TemplateParts(r, i, ng) ==
  IF i > Len(r) THEN [ok |-> TRUE, parts |-> << >>]
  ELSE IF r[i] # ChBackslash
    THEN Prepend([lit |-> <<r[i]>>], TemplateParts(r, i + 1, ng))
  ELSE IF i = Len(r) THEN TFail                    \* bad escape (end of pattern)
  ELSE TemplateAfter(r, ng,
         TemplateEscape(i, ng, r[i + 1],
                        IF i + 2 <= Len(r) THEN r[i + 2] ELSE 0,
                        IF i + 3 <= Len(r) THEN r[i + 3] ELSE 0))

\* A replacement without a backslash is used as it is.
ParseTemplate(r, ng) ==
  IF \A i \in 1..Len(r) : r[i] # ChBackslash
    THEN [ok |-> TRUE, parts |-> IF r = << >> THEN << >> ELSE << [lit |-> r] >>]
    ELSE TemplateParts(r, 1, ng)

RECURSIVE Expand(_, _, _, _)
Expand(parts, k, s, caps) ==
  IF k > Len(parts) THEN << >>
  ELSE (IF "lit" \in DOMAIN parts[k] THEN parts[k].lit
        ELSE SubSeq(s, caps[parts[k].grp][1], caps[parts[k].grp][2] - 1))
         \o Expand(parts, k + 1, s, caps)

RECURSIVE SubFrom(_, _, _, _, _, _, _, _)

\* The text from position copied on, the search having given m.
SubAfter(node, ng, parts, s, copied, fl, m) ==
  IF m = << >> THEN SubSeq(s, copied, Len(s))
  ELSE SubSeq(s, copied, m[1].from - 1)
         \o Expand(parts, 1, s, m[1].caps)
         \o SubFrom(node, ng, parts, s, m[1].i, m[1].i, m[1].i = m[1].from, fl)

\* The substitution loop: s has been dealt with up to (not including)
\* position copied; the next search starts at st.
SubFrom(node, ng, parts, s, copied, st, must, fl) ==
  SubAfter(node, ng, parts, s, copied, fl, Search(node, ng, s, st, must, fl))

SubWith(compiled, t, text, fl) ==
  IF ~t.ok THEN [ok |-> FALSE]
  ELSE [ok |-> TRUE,
        text |-> SubFrom(compiled.node, compiled.ng, t.parts, text, 1, 1, FALSE, fl)]

\* pattern.sub(replacement, text) for a compiled pattern: ok is FALSE where
\* Python raises re.error (a malformed template).
ReSub(compiled, replacement, text, fl) ==
  SubWith(compiled, ParseTemplate(replacement, compiled.ng), text, fl)

(***************************************************************************)
(* Python values.  None and a string are told apart by the "none" field;   *)
(* the rule collection handed to the engine is a list of EnvConfig         *)
(* records, a dict from name to value (its items in insertion order), or   *)
(* None.                                                                   *)
(***************************************************************************)

PyNone == [none |-> TRUE]
PyVal(v) == [none |-> FALSE, v |-> v]

\* Truthiness of None, a string or bytes.
Truthy(x) == ~x.none /\ x.v # << >>

EnvList(items) == [kind |-> "list", items |-> items]
EnvDict(items) == [kind |-> "dict", items |-> items]
EnvNone == [kind |-> "none", items |-> << >>]
DictItem(key, val) == [key |-> key, val |-> val]

\* if env_vars: an empty list, an empty dict and None are false.
EnvTruthy(env_vars) == env_vars.items # << >>

\* What "for env_config in env_vars" yields: the records of a list, the key
\* strings of a dict.
EnvIter(env_vars) ==
  [j \in 1..Len(env_vars.items) |->
     IF env_vars.kind = "list" THEN [py |-> "dict", d |-> env_vars.items[j]]
     ELSE [py |-> "str", s |-> env_vars.items[j].key]]

\* A literal rule and a regex rule as EnvConfig records.
Literal(name, value) == [name |-> name, value |-> value]
Regex(name, value, flags) ==
  [name |-> name, value |-> value, regex |-> TRUE, flags |-> flags]

\* env_config.get(key, default)
DictGet(d, key, default) == IF key \in DOMAIN d THEN d[key] ELSE default

(***************************************************************************)
(* GitHubClient._substitute_env_vars                                       *)
(***************************************************************************)

TextOk(text) == [exc |-> "", text |-> text]
TextRaise(exc) == [exc |-> exc, text |-> << >>]

\* The flags string ignored: every pattern is compiled with flags 0.
ParseFlagsIgnoredMutant(flags_str) == [i |-> FALSE, m |-> FALSE, s |-> FALSE]

\* flags_str.lower() searched for "i", "m" and "s".
ParseFlags(flags_str) ==
  [i |-> Contains(Lower(flags_str), <<Ord("i")>>),
   m |-> Contains(Lower(flags_str), <<Ord("m")>>),
   s |-> Contains(Lower(flags_str), <<Ord("s")>>)]

\* value.replace("$", "\\")
DollarToBackslash(value) == StrReplace(value, <<ChDollar>>, <<ChBackslash>>)

\* except re.error: continue -- the text stays as it was.
SubOrSkip(text, r) == IF r.ok THEN TextOk(r.text) ELSE TextOk(text)

\* The regex branch given the compiled pattern, the replacement handed to
\* sub and the flags.
RegexRuleWith(text, compiled, replacement, fl) ==
  IF ~compiled.ok THEN TextOk(text)
  ELSE SubOrSkip(text, ReSub(compiled, replacement, text, fl))

\* A pattern that does not compile ends the substitution with re.error.
RegexRuleAbortsMutant(text, name, value, flags_str) ==
  IF ~ReCompile(name).ok THEN TextRaise("re.error")
  ELSE RegexRuleWith(text, ReCompile(name), DollarToBackslash(value),
                     ParseFlags(flags_str))

\* The replacement used as written: $k is not rewritten to a backreference.
RegexRuleNoRewriteMutant(text, name, value, flags_str) ==
  RegexRuleWith(text, ReCompile(name), value, ParseFlags(flags_str))

\* The regex branch for one rule: compile, rewrite the replacement, sub; on
\* re.error the rule is skipped (continue) and the text stays as it was.
RegexRule(text, name, value, flags_str) ==
  RegexRuleWith(text, ReCompile(name), DollarToBackslash(value),
                ParseFlags(flags_str))

\* The literal branch for one rule.
LiteralRule(text, name, value) ==
  IF Contains(text, name) THEN StrReplace(text, name, value) ELSE text

\* The body of the loop for one element of env_vars.  Subscripting a str
\* with "name" raises TypeError; a dict without the key raises KeyError.
ApplyRule(text, e) ==
  IF e.py = "str" THEN TextRaise("TypeError")
  ELSE IF "name" \notin DOMAIN e.d \/ "value" \notin DOMAIN e.d THEN TextRaise("KeyError")
  ELSE IF DictGet(e.d, "regex", FALSE)
    THEN RegexRule(text, e.d.name, e.d.value, DictGet(e.d, "flags", << >>))
  ELSE TextOk(LiteralRule(text, e.d.name, e.d.value))

RECURSIVE ApplyRulesIndependentMutant(_, _, _)

IndependentAfter(text, r, items, k) ==
  IF r.exc # "" \/ k = Len(items) THEN r
  ELSE ApplyRulesIndependentMutant(text, items, k + 1)

\* Every rule applied to the text as first decoded, the last one winning.
ApplyRulesIndependentMutant(text, items, k) ==
  IF k > Len(items) THEN TextOk(text)
  ELSE IndependentAfter(text, ApplyRule(text, items[k]), items, k)

RECURSIVE ApplyRules(_, _, _)

\* The loop after its k-th element gave r: an exception leaves the loop,
\* otherwise the next rule works on r.text.
ApplyRulesAfter(r, items, k) ==
  IF r.exc # "" THEN r ELSE ApplyRules(r.text, items, k + 1)

\* The loop over env_vars from its k-th element: each rule works on the
\* text the rules before it produced.
ApplyRules(text, items, k) ==
  IF k > Len(items) THEN TextOk(text)
  ELSE ApplyRulesAfter(ApplyRule(text, items[k]), items, k)

BytesOk(content) == [exc |-> "", content |-> content]
BytesRaise(exc) == [exc |-> exc, content |-> << >>]

\* text.encode("utf-8") of the loop's result, or the exception it raised.
Encoded(r) ==
  IF r.exc # "" THEN BytesRaise(r.exc) ELSE BytesOk(Utf8Encode(r.text))

\* Undecodable bytes dropped (decode with errors="ignore") and the rules
\* applied to what is left.
SubstituteEnvVarsLossyMutant(content, env_vars) ==
  Encoded(ApplyRules(SelectSeq(content, LAMBDA b : b < 128), EnvIter(env_vars), 1))

\* The substitution given the outcome of content.decode("utf-8"):
\* UnicodeDecodeError is caught and the content returned as it is.
SubstituteDecoded(content, decoded, env_vars) ==
  IF ~decoded.ok THEN BytesOk(content)
  ELSE Encoded(ApplyRules(decoded.text, EnvIter(env_vars), 1))

\* _substitute_env_vars(content, env_vars): the bytes returned, or the
\* exception that leaves it.  Only UnicodeDecodeError is caught.
SubstituteEnvVars(content, env_vars) ==
  SubstituteDecoded(content, Utf8Decode(content), env_vars)

(***************************************************************************)
(* base64.b64decode(s) for a str s, as binascii.a2b_base64 does it outside *)
(* strict mode: characters outside the alphabet are skipped, a complete    *)
(* pad ends the data, and leftover characters are an error (ValueError).   *)
(***************************************************************************)

B64Value(c) ==
  IF c >= 65 /\ c <= 90 THEN c - 65
  ELSE IF c >= 97 /\ c <= 122 THEN c - 97 + 26
  ELSE IF IsDigit(c) THEN c - 48 + 52
  ELSE IF c = ChPlus THEN 62
  ELSE IF c = Ord("/") THEN 63
  ELSE 64

RECURSIVE B64From(_, _, _, _, _, _)
B64From(s, k, quad, left, pads, out) ==
  IF k > Len(s) THEN [ok |-> quad = 0, bytes |-> out]
  ELSE IF s[k] = Ord("=")
    THEN IF quad >= 2 /\ quad + pads + 1 >= 4 THEN [ok |-> TRUE, bytes |-> out]
         ELSE B64From(s, k + 1, quad, left, pads + 1, out)
  ELSE LET v == B64Value(s[k])
       IN  IF v >= 64 THEN B64From(s, k + 1, quad, left, pads, out)
           ELSE CASE quad = 0 -> B64From(s, k + 1, 1, v, 0, out)
                  [] quad = 1 ->
                       B64From(s, k + 1, 2, v % 16, 0, Append(out, left * 4 + (v \div 16)))
                  [] quad = 2 ->
                       B64From(s, k + 1, 3, v % 4, 0, Append(out, left * 16 + (v \div 4)))
                  [] quad = 3 ->
                       B64From(s, k + 1, 0, 0, 0, Append(out, left * 64 + v))

B64Decode(s) ==
  IF \E k \in 1..Len(s) : s[k] >= 128 THEN [ok |-> FALSE, bytes |-> << >>]
  ELSE B64From(s, 1, 0, 0, 0, << >>)

(***************************************************************************)
(* The two fetch paths.  A response is a transport error (any              *)
(* requests.RequestException raised by session.get) or an HTTP response    *)
(* with a status; response.raise_for_status() raises for 4xx and 5xx.      *)
(***************************************************************************)

TransportError == [kind |-> "error"]
HttpResponse(status, body) == [kind |-> "http", status |-> status, body |-> body]

RaisesForStatus(status) == status >= 400 /\ status < 600

Failed(resp) == resp.kind = "error" \/ RaisesForStatus(resp.status)

\* _download_via_raw_url: response.content, or None when the request raised.
DownloadViaRawUrl(resp) ==
  IF Failed(resp) THEN PyNone ELSE PyVal(resp.body)

JsonMalformed == [shape |-> "malformed"]
JsonArray == [shape |-> "array"]
JsonObject(fields) == [shape |-> "object", fields |-> fields]
JsonString(v) == [str |-> TRUE, v |-> v]
JsonNull == [str |-> FALSE]

FetchOk(content) == [exc |-> "", content |-> content]
FetchRaise(exc) == [exc |-> exc, content |-> PyNone]

\* base64.b64decode(data["content"]) given the element: a value that is not
\* a string raises TypeError, which is not caught; binascii.Error is a
\* ValueError and is.
DecodeContent(content) ==
  IF ~content.str THEN FetchRaise("TypeError")
  ELSE IF B64Decode(content.v).ok THEN FetchOk(PyVal(B64Decode(content.v).bytes))
  ELSE FetchOk(PyNone)

Base64Name == Str(<<"b", "a", "s", "e", "6", "4">>)

\* The content field returned as it is, without base64 decoding.
DownloadViaApiNoDecodeMutant(resp) ==
  IF Failed(resp) \/ resp.body.shape # "object" THEN FetchOk(PyNone)
  ELSE IF "content" \in DOMAIN resp.body.fields /\ resp.body.fields.content.str
    THEN FetchOk(PyVal(resp.body.fields.content.v))
  ELSE FetchOk(PyNone)

\* _download_via_api: the decoded content, None where the request or the
\* parsing raised a caught exception (RequestException, KeyError,
\* ValueError), or the exception that leaves it.
DownloadViaApi(resp) ==
  IF Failed(resp) THEN FetchOk(PyNone)
  ELSE IF resp.body.shape = "malformed" THEN FetchOk(PyNone)         \* ValueError
  ELSE IF resp.body.shape # "object" THEN FetchRaise("AttributeError")
  ELSE IF DictGet(resp.body.fields, "encoding", JsonNull) # JsonString(Base64Name)
    THEN FetchOk(PyNone)                                              \* unexpected encoding
  ELSE IF "content" \notin DOMAIN resp.body.fields THEN FetchOk(PyNone)   \* KeyError
  ELSE DecodeContent(resp.body.fields.content)

(***************************************************************************)
(* pathlib paths: whether the path is absolute and its components, parsed  *)
(* from text by splitting at "/" and dropping empty and "." components.    *)
(* ".." components are kept; the operating system resolves them.           *)
(***************************************************************************)

ChSlash == Ord("/")
DotDot == <<ChDot, ChDot>>

RECURSIVE SplitFrom(_, _, _)
SplitFrom(s, k, cur) ==
  LET done == IF cur \in {<< >>, <<ChDot>>} THEN << >> ELSE <<cur>>
  IN  IF k > Len(s) THEN done
      ELSE IF s[k] = ChSlash THEN done \o SplitFrom(s, k + 1, << >>)
      ELSE SplitFrom(s, k + 1, Append(cur, s[k]))

\* Path(text)
PathOf(text) ==
  [abs |-> text # << >> /\ text[1] = ChSlash, parts |-> SplitFrom(text, 1, << >>)]

\* a / b
PathJoin(a, b) ==
  IF b.abs THEN b ELSE [abs |-> a.abs, parts |-> a.parts \o b.parts]

\* path.name
PathName(p) == IF p.parts = << >> THEN << >> ELSE p.parts[Len(p.parts)]

\* path.parent
PathParent(p) ==
  IF p.parts = << >> THEN p
  ELSE [abs |-> p.abs, parts |-> SubSeq(p.parts, 1, Len(p.parts) - 1)]

\* The working directory of the process, as components from the root.
Cwd == << Str(<<"w">>) >>

RECURSIVE ResolveFrom(_, _, _)
ResolveFrom(parts, k, acc) ==
  IF k > Len(parts) THEN acc
  ELSE IF parts[k] = DotDot
    THEN ResolveFrom(parts, k + 1, SubSeq(acc, 1, Len(acc) - 1))
  ELSE ResolveFrom(parts, k + 1, Append(acc, parts[k]))

\* The place in the file system a path names: its components from the root.
Resolve(p) == ResolveFrom(p.parts, 1, IF p.abs THEN << >> ELSE Cwd)

(***************************************************************************)
(* The file system: a function from the places that exist (sequences of    *)
(* component names from the root) to a directory or a file with its bytes  *)
(* and modification time.                                                  *)
(***************************************************************************)

Dir == [type |-> "dir"]
File(content, mtime) == [type |-> "file", content |-> content, mtime |-> mtime]

Exists(f, place) == place \in DOMAIN f
IsFile(f, place) == Exists(f, place) /\ f[place].type = "file"
IsDir(f, place) == Exists(f, place) /\ f[place].type = "dir"

\* The places path.mkdir(parents=True) visits: the path and its ancestors.
Ancestors(place) == {SubSeq(place, 1, k) : k \in 0..Len(place)}
MkdirPlaces(p) ==
  UNION {Ancestors(Resolve([abs |-> p.abs, parts |-> SubSeq(p.parts, 1, k)])) :
           k \in 0..Len(p.parts)}

\* path.mkdir(parents=True, exist_ok=True): ok is FALSE where it raises
\* OSError (the path or one of its ancestors is a file).
Mkdir(f, p) ==
  IF \E q \in MkdirPlaces(p) : IsFile(f, q) THEN [ok |-> FALSE, fs |-> f]
  ELSE [ok |-> TRUE,
        fs |-> [q \in DOMAIN f \cup MkdirPlaces(p) |->
                  IF q \in DOMAIN f THEN f[q] ELSE Dir]]

WriteFile(f, place, content, now) ==
  [q \in DOMAIN f \cup {place} |-> IF q = place THEN File(content, now) ELSE f[q]]

SaveOk(f) == [exc |-> "", fs |-> f]
SaveRaise(f) == [exc |-> "OSError", fs |-> f]

\* open("wb") and write(content) in the file system made holds after mkdir.
OpenAndWrite(made, now, content, place, fault) ==
  IF fault = "open" \/ IsDir(made, place) THEN SaveRaise(made)
  ELSE IF fault = "write" THEN SaveRaise(WriteFile(made, place, << >>, now))
  ELSE SaveOk(WriteFile(made, place, content, now))

\* _save_file after output_path.parent.mkdir(parents=True, exist_ok=True)
\* gave made.
SaveAfterMkdir(f, now, content, p, fault, made) ==
  IF fault = "mkdir" \/ ~made.ok THEN SaveRaise(f)
  ELSE OpenAndWrite(made.fs, now, content, Resolve(p), fault)

\* _save_file(content, output_path) at time now: the OSError that leaves it,
\* if any, and the file system afterwards.  fault is the operation the
\* operating system refuses ("mkdir", "open", "write") or "none"; a refused
\* write leaves the file truncated by open("wb").
SaveFile(f, now, content, p, fault) ==
  SaveAfterMkdir(f, now, content, p, fault, Mkdir(f, PathParent(p)))

(***************************************************************************)
(* GitHubClient.download_file                                              *)
(***************************************************************************)

Colon == <<ChColon>>

\* The path alone.
FileIdPathOnlyMutant(repo, ref, file_path) == file_path

\* f"{repo}:{ref}:{file_path}"
FileId(repo, ref, file_path) == repo \o Colon \o ref \o Colon \o file_path

NotFoundPrefix ==
  Str(<<"F", "i", "l", "e", " ", "n", "o", "t", " ", "f", "o", "u", "n", "d", ":", " ">>)

\* The outcome of a call before anything is fetched: the requests issued
\* (endpoints, in order), the bytes fetched, the bytes after substitution,
\* the exception that leaves the call (exc, with its message), the bytes
\* returned (ret) and the file system afterwards.
Outcome(reqs, f) ==
  [reqs |-> reqs, fetched |-> PyNone, substituted |-> PyNone,
   exc |-> "", msg |-> << >>, ret |-> PyNone, fs |-> f]

\* The contents API tried after a failed raw request with or without a
\* token.
UsesApiWithoutTokenMutant(tok, raw) == raw.none

\* if content is None and self.token
UsesApi(tok, raw) == raw.none /\ Truthy(tok)

\* The content after both fetch paths, raw being what the raw path gave.
Fetch(tok, net, raw) ==
  IF UsesApi(tok, raw) THEN DownloadViaApi(net.api) ELSE FetchOk(raw)

Requests(tok, raw) == IF UsesApi(tok, raw) THEN <<"raw", "api">> ELSE <<"raw">>

\* if env_vars: content = self._substitute_env_vars(content, env_vars)
Substitute(content, env_vars) ==
  IF EnvTruthy(env_vars) THEN SubstituteEnvVars(content, env_vars)
  ELSE BytesOk(content)

\* if output_path: self._save_file(content, output_path)
Save(f, now, content, output_path, fault) ==
  IF output_path.none THEN SaveOk(f)
  ELSE SaveFile(f, now, content, output_path.v, fault)

\* return content, unless _save_file raised.
AfterSave(got, content, saved) ==
  IF saved.exc # ""
    THEN [got EXCEPT !.substituted = PyVal(content), !.fs = saved.fs,
                     !.exc = saved.exc]
    ELSE [got EXCEPT !.substituted = PyVal(content), !.fs = saved.fs,
                     !.ret = PyVal(content)]

\* The fetched bytes saved before the rules are applied.
AfterSubstituteSavesFirstMutant(got, f, now, output_path, fault, sub) ==
  IF sub.exc # ""
    THEN [got EXCEPT !.exc = sub.exc,
                     !.fs = Save(f, now, got.fetched.v, output_path, fault).fs]
    ELSE AfterSave(got, sub.content, Save(f, now, sub.content, output_path, fault))

\* if env_vars: content = self._substitute_env_vars(...), then the save: an
\* exception of the substitution leaves download_file before _save_file.
AfterSubstitute(got, f, now, output_path, fault, sub) ==
  IF sub.exc # "" THEN [got EXCEPT !.exc = sub.exc]
  ELSE AfterSave(got, sub.content, Save(f, now, sub.content, output_path, fault))

\* download_file from "if content is None: raise FileNotFoundError" on,
\* fetched being what the fetch paths gave.
AfterFetch(base, f, now, id, output_path, env_vars, fault, fetched) ==
  IF fetched.exc # "" THEN [base EXCEPT !.exc = fetched.exc]
  ELSE IF fetched.content.none
    THEN [base EXCEPT !.exc = "FileNotFoundError", !.msg = NotFoundPrefix \o id]
  ELSE AfterSubstitute([base EXCEPT !.fetched = fetched.content], f, now,
                       output_path, fault,
                       Substitute(fetched.content.v, env_vars))

AfterRaw(tok, f, now, id, output_path, env_vars, net, fault, raw) ==
  AfterFetch(Outcome(Requests(tok, raw), f), f, now, id, output_path, env_vars,
             fault, Fetch(tok, net, raw))

\* download_file(repo, ref, file_path, output_path, env_vars) on a client
\* with the given token, in the file system f at time now.  net gives the
\* answer of each endpoint to a request for this file, fault the disk fault.
DownloadFile(tok, f, now, repo, ref, file_path, output_path, env_vars, net, fault) ==
  AfterRaw(tok, f, now, FileId(repo, ref, file_path), output_path, env_vars, net,
           fault, DownloadViaRawUrl(net.raw))

(***************************************************************************)
(* SyncResult and the helpers of RepoFileSync.                             *)
(***************************************************************************)

\* SyncResult.__init__
NewSyncResult == [successful_files |-> << >>, failed_files |-> << >>, total_bytes |-> 0]

AddSuccess(res, file_path, size_bytes) ==
  [res EXCEPT !.successful_files = Append(@, file_path),
              !.total_bytes = @ + size_bytes]

\* The exception is kept with its type and message.
AddFailure(res, file_path, error) ==
  [res EXCEPT !.failed_files = Append(@, [id |-> file_path, error |-> error])]

SuccessCount(res) == Len(res.successful_files)
FailureCount(res) == Len(res.failed_files)

\* Success taken to mean that something was downloaded.
IsSuccessAnyDownloadedMutant(res) == SuccessCount(res) > 0

\* SyncResult.is_success
IsSuccess(res) == FailureCount(res) = 0

\* The outcomes of a source put before those of the sources before it.
MergeInFrontMutant(res, source_res) ==
  [successful_files |-> source_res.successful_files \o res.successful_files,
   failed_files |-> source_res.failed_files \o res.failed_files,
   total_bytes |-> res.total_bytes + source_res.total_bytes]

\* The "Merge results" lines of sync.
Merge(res, source_res) ==
  [successful_files |-> res.successful_files \o source_res.successful_files,
   failed_files |-> res.failed_files \o source_res.failed_files,
   total_bytes |-> res.total_bytes + source_res.total_bytes]

\* _load_envs_file, one entry of the list: name and value are kept, regex
\* is kept when present, every other key is left behind.
ValidatedEnv(env) ==
  IF "regex" \in DOMAIN env
    THEN [name |-> env.name, value |-> env.value, regex |-> env.regex]
    ELSE [name |-> env.name, value |-> env.value]

\* _load_envs_file on the list the YAML file holds: an entry without name
\* or value raises ValueError.
LoadEnvsFile(data) ==
  IF \E j \in 1..Len(data) : "name" \notin DOMAIN data[j] \/ "value" \notin DOMAIN data[j]
    THEN [exc |-> "ValueError", envs |-> << >>]
    ELSE [exc |-> "", envs |-> [j \in 1..Len(data) |-> ValidatedEnv(data[j])]]

\* d[key] = val on a dict held as its items in insertion order: a key
\* already there keeps its place and takes the new value.
DictPut(items, key, val) ==
  IF \E j \in 1..Len(items) : items[j].key = key
    THEN [j \in 1..Len(items) |->
            IF items[j].key = key THEN DictItem(key, val) ELSE items[j]]
    ELSE Append(items, DictItem(key, val))

RECURSIVE DictFrom(_, _, _)
DictFrom(envs, k, items) ==
  IF k > Len(envs) THEN items
  ELSE DictFrom(envs, k + 1, DictPut(items, envs[k].name, envs[k].value))

\* {env["name"]: env["value"] for env in config["envs"]}
EnvVarsOf(envs) == EnvDict(DictFrom(envs, 1, << >>))

\* Every file flattened, whatever preserve_structure says.
OutputPathFlatMutant(output_dir, preserve_structure, repo, file_path) ==
  PathJoin(output_dir, PathOf(PathName(PathOf(file_path))))

\* The output path of a file: under a directory named after the
\* repository, or flattened to the file's name.
OutputPath(output_dir, preserve_structure, repo, file_path) ==
  IF preserve_structure
    THEN PathJoin(PathJoin(output_dir, PathOf(StrReplace(repo, <<ChSlash>>, <<Ord("_")>>))),
                  PathOf(file_path))
    ELSE PathJoin(output_dir, PathOf(PathName(PathOf(file_path))))

\* A failure recorded nowhere.
RecordedSuccessOnlyMutant(res, id, out) ==
  IF out.exc = "" THEN AddSuccess(res, id, Len(out.ret.v)) ELSE res

\* An OSError swallowed: the file counts as a success of no bytes.
RecordedSwallowsOSErrorMutant(res, id, out) ==
  IF out.exc = "" THEN AddSuccess(res, id, Len(out.ret.v))
  ELSE IF out.exc = "OSError" THEN AddSuccess(res, id, 0)
  ELSE AddFailure(res, id, [exc |-> out.exc, msg |-> out.msg])

\* A success recorded with no bytes, as in a dry run.
RecordedNoBytesMutant(res, id, out) ==
  IF out.exc = "" THEN AddSuccess(res, id, 0)
  ELSE AddFailure(res, id, [exc |-> out.exc, msg |-> out.msg])

\* The result after one file's download_file call gave out: add_success
\* with the length of the bytes returned, or the except clause's
\* add_failure.
Recorded(res, id, out) ==
  IF out.exc = "" THEN AddSuccess(res, id, Len(out.ret.v))
  ELSE AddFailure(res, id, [exc |-> out.exc, msg |-> out.msg])

\* The number of files in the first k sources.
RECURSIVE FilesBefore(_, _)
FilesBefore(sources, k) ==
  IF k = 0 THEN 0 ELSE FilesBefore(sources, k - 1) + Len(sources[k].files)

(***************************************************************************)
(* State.                                                                  *)
(***************************************************************************)

VARIABLES
  sub_in,             \* the arguments of a direct _substitute_env_vars call
  sub_out,            \* its outcome
  token,              \* GitHubClient.token
  last_file_written,  \* the client attribute sync reads with getattr
  fs,                 \* the file system
  clock,              \* the file system's clock
  call,               \* the last download_file call: arguments and outcome
  pc,                 \* where RepoFileSync.sync stands
  config,             \* sync's config argument
  opts,               \* sync's output_dir, dry_run and preserve_structure
  sync_env_vars,      \* the env_vars dictionary sync builds
  src_i,              \* the source the loop of sync is at
  file_j,             \* the file the loop of _sync_source is at
  result,             \* sync's SyncResult
  source_result,      \* the SyncResult of the _sync_source call under way
  log,                \* the download_file calls sync has made, in order
  args,               \* main's parsed arguments and what it finds at args.config
  exit_code,          \* the code main gave to sys.exit
  errors,             \* the logger.error calls of main, in order
  git,                \* what the environment answers to pull-request creation
  pr_calls,           \* the client methods create_pull_request has called
  git_env,            \* which git subprocesses fail, and what git finds
  git_out             \* the git operation of the client that was called

substVars == <<sub_in, sub_out>>
clientVars == <<token, last_file_written, fs, clock, call>>
syncVars == <<pc, config, opts, sync_env_vars, src_i, file_j, result, source_result, log>>
gitVars == <<git_env, git_out>>
mainVars == <<args, exit_code, errors, git, pr_calls, git_env, git_out>>
vars == <<sub_in, sub_out, token, last_file_written, fs, clock, call,
          pc, config, opts, sync_env_vars, src_i, file_j, result, source_result, log,
          args, exit_code, errors, git, pr_calls, git_env, git_out>>

Pending == [done |-> FALSE]
NoCall == [done |-> FALSE, n |-> 0]

\* GitHubClient.__init__: token or os.getenv("GITHUB_TOKEN")
ClientToken(arg, env) == IF Truthy(arg) THEN arg ELSE env

\* An attribute of the client: absent, or set to a value.  No statement of
\* the program assigns last_file_written.
Unset == [set |-> FALSE]
Attr(v) == [set |-> TRUE, v |-> v]

RootOnly == (<< >> :> Dir) @@ (Cwd :> Dir)

ClientIdle ==
  /\ token = PyNone
  /\ last_file_written = Unset
  /\ fs = RootOnly
  /\ clock = 0
  /\ call = NoCall

SubstIdle == sub_in = << >> /\ sub_out = Pending

\* No main under way: sync was called directly, or not at all.
MainIdle ==
  /\ args = [none |-> TRUE]
  /\ exit_code = PyNone
  /\ errors = << >>
  /\ git = [none |-> TRUE]
  /\ pr_calls = << >>

\* No git operation of the client under way.
GitIdle == git_env = [none |-> TRUE] /\ git_out = Pending

SyncIdle ==
  /\ MainIdle
  /\ GitIdle
  /\ pc = "idle"
  /\ config = [envs |-> << >>, sources |-> << >>]
  /\ opts = [none |-> TRUE]
  /\ sync_env_vars = EnvNone
  /\ src_i = 0
  /\ file_j = 0
  /\ result = NewSyncResult
  /\ source_result = NewSyncResult
  /\ log = << >>

\* One download_file call by the client, the (n+1)-th, at time now: the
\* call's arguments, the answers of the network and the disk fault are
\* recorded with its outcome.  Nothing in download_file or the methods it
\* calls assigns last_file_written.
Download(repo, ref, file_path, output_path, env_vars, net, fault, now) ==
  /\ call' = [done |-> TRUE, n |-> call.n + 1,
              repo |-> repo, ref |-> ref, file_path |-> file_path,
              output_path |-> output_path, env_vars |-> env_vars,
              net |-> net, fault |-> fault, fs_before |-> fs,
              out |-> DownloadFile(token, fs, now, repo, ref, file_path,
                                   output_path, env_vars, net, fault)]
  /\ fs' = call'.out.fs
  /\ clock' = now
  /\ UNCHANGED <<token, last_file_written>>

(***************************************************************************)
(* Direct calls of _substitute_env_vars on bounded inputs.                 *)
(***************************************************************************)

MaxRules == 3

T_abc == Str(<<"a", "b", "c">>)
T_versions ==
  Str(<<"v", "1", ".", "2", ".", "3", " ", "a", "n", "d", " ",
        "v", "3", ".", "1", ".", "4">>)
T_versions_out ==
  Str(<<"v", "e", "r", "s", "i", "o", "n", "-", "1", ".", "2", ".", "3",
        " ", "a", "n", "d", " ",
        "v", "e", "r", "s", "i", "o", "n", "-", "3", ".", "1", ".", "4">>)
B_png == <<137, 80, 78, 71, 13, 10, 26, 10>>
B_cafe == <<99, 97, 102, 195, 169>>
B_trunc == <<97, 195>>

RuleA == Literal(Str(<<"a", "b">>), Str(<<"x">>))
RuleB == Literal(Str(<<"b", "c">>), Str(<<"y">>))
RuleCD == Literal(Str(<<"c">>), Str(<<"d">>))
RuleVersion ==
  Regex(Str(<<"v", "(", "\\", "d", "+", ")", "\\", ".", "(", "\\", "d", "+", ")",
              "\\", ".", "(", "\\", "d", "+", ")">>),
        Str(<<"v", "e", "r", "s", "i", "o", "n", "-", "$", "1", ".", "$", "2", ".", "$", "3">>),
        << >>)
RuleSwap ==
  Regex(Str(<<"(", "a", ")", "(", "b", "|", "c", ")">>), Str(<<"$", "2", "$", "1">>), << >>)
RuleInvalid ==
  Regex(Str(<<"[", "i", "n", "v", "a", "l", "i", "d">>), Str(<<"z">>), << >>)

T_checkout ==
  Str(<<"c", "h", "e", "c", "k", "o", "u", "t", " ", "v", "4", " ", "a", "n", "d", " ",
        "C", "H", "E", "C", "K", "O", "U", "T", " ", "V", "4">>)
P_checkout == Str(<<"c", "h", "e", "c", "k", "o", "u", "t", " ", "v", "4">>)
V_checkout == Str(<<"c", "h", "e", "c", "k", "o", "u", "t", " ", "v", "5">>)

\* The checkout rule with a given flags string.
RuleCheckout(flags) == Regex(P_checkout, V_checkout, flags)

SubstRules == {RuleA, RuleB, RuleCD, RuleVersion, RuleSwap, RuleInvalid}
FlagRules ==
  {RuleCheckout(<< >>), RuleCheckout(Str(<<"i">>)), RuleCheckout(Str(<<"M", "I">>)),
   RuleCheckout(Str(<<"s">>))}
\* Regex rules for the pattern "b" whose replacement holds a "$" that no
\* digit follows: before a letter, at the end, before a dot.
RuleDollar(value) == Regex(Str(<<"b">>), value, << >>)
DollarRules ==
  {RuleDollar(Str(<<"$", "x">>)), RuleDollar(Str(<<"x", "$">>)),
   RuleDollar(Str(<<"$", ".">>))}
SubstContents == {T_abc, T_versions, T_checkout, B_png, B_cafe, B_trunc, << >>}

SubstEnvs ==
  {EnvList(items) : items \in UNION {[1..k -> SubstRules] : k \in 0..MaxRules}}
    \cup {EnvList(<<r>>) : r \in FlagRules}
    \cup {EnvList(<<r>>) : r \in DollarRules}
    \cup {EnvDict(<<DictItem(RuleA.name, RuleA.value)>>),
          EnvDict(<<DictItem(RuleA.name, RuleA.value), DictItem(RuleB.name, RuleB.value)>>)}

InitSubst ==
  /\ sub_in \in {[content |-> c, env_vars |-> e] : c \in SubstContents, e \in SubstEnvs}
  /\ sub_out = Pending
  /\ ClientIdle
  /\ SyncIdle

SubstituteCall ==
  /\ ~sub_out.done
  /\ sub_out' = [done |-> TRUE] @@ SubstituteEnvVars(sub_in.content, sub_in.env_vars)
  /\ UNCHANGED sub_in
  /\ UNCHANGED clientVars
  /\ UNCHANGED syncVars
  /\ UNCHANGED mainVars

NextSubst == SubstituteCall

SpecSubst == InitSubst /\ [][NextSubst]_vars

(***************************************************************************)
(* Single download_file calls without output path or rules, over the       *)
(* answers the two endpoints can give.                                     *)
(***************************************************************************)

Repo == Str(<<"o", "/", "r">>)
Refs == {Str(<<"m", "a", "i", "n">>), Str(<<"v", "1">>)}
FilePaths == {Str(<<"a", ".", "t", "x", "t">>), Str(<<"d", "/", "a", ".", "t", "x", "t">>)}

\* What the token argument and GITHUB_TOKEN can be: absent, empty, set.
TokenValues == {PyNone, PyVal(<< >>), PyVal(Str(<<"t", "o", "k">>))}

NotFoundBody == Str(<<"4", "0", "4">>)
RawAnswers ==
  {TransportError, HttpResponse(404, NotFoundBody), HttpResponse(500, << >>),
   HttpResponse(200, T_abc), HttpResponse(200, B_png), HttpResponse(204, << >>)}

B64_abc == Str(<<"Y", "W", "J", "j">>)
B64_abc_lines == Str(<<"Y", "W", "J", "j">>) \o <<10>>
B64_png == Str(<<"i", "V", "B", "O", "R", "w", "0", "K", "G", "g", "o", "=">>)
B64_short == Str(<<"Y", "W", "J">>)

ContentsObject(encoding, content) ==
  JsonObject([encoding |-> JsonString(encoding), content |-> content])

ApiBodies ==
  {JsonMalformed, JsonArray,
   ContentsObject(Base64Name, JsonString(B64_abc)),
   ContentsObject(Base64Name, JsonString(B64_abc_lines)),
   ContentsObject(Base64Name, JsonString(B64_png)),
   ContentsObject(Base64Name, JsonString(B64_short)),
   ContentsObject(Base64Name, JsonNull),
   ContentsObject(Str(<<"n", "o", "n", "e">>), JsonString(<< >>)),
   JsonObject([encoding |-> JsonString(Base64Name)]),
   JsonObject([content |-> JsonString(B64_abc)])}

ApiAnswers ==
  {TransportError, HttpResponse(404, JsonMalformed), HttpResponse(403, JsonMalformed)}
    \cup {HttpResponse(200, b) : b \in ApiBodies}

InitFetch ==
  /\ token \in {ClientToken(arg, env) : arg \in TokenValues, env \in TokenValues}
  /\ last_file_written = Unset
  /\ fs = RootOnly
  /\ clock = 0
  /\ call = NoCall
  /\ SubstIdle
  /\ SyncIdle

FetchCall ==
  /\ ~call.done
  /\ \E ref \in Refs, file_path \in FilePaths, raw \in RawAnswers, api \in ApiAnswers :
       Download(Repo, ref, file_path, PyNone, EnvNone,
                [raw |-> raw, api |-> api], "none", clock)
  /\ UNCHANGED substVars
  /\ UNCHANGED syncVars
  /\ UNCHANGED mainVars

NextFetch == FetchCall

SpecFetch == InitFetch /\ [][NextFetch]_vars

(***************************************************************************)
(* Repeated download_file calls that save what they fetch.                 *)
(***************************************************************************)

MaxWrites == 2

OutDir == PathOf(Str(<<"o", "u", "t">>))
OutFile == PathOf(Str(<<"o", "u", "t", "/", "a", ".", "t", "x", "t">>))
OutNested == PathOf(Str(<<"o", "u", "t", "/", "d", "/", "a", ".", "t", "x", "t">>))

\* The file systems a run can start in: nothing under the working
\* directory, the output file already there, a file where the output
\* directory should be.
WithOutFile ==
  (Resolve(OutFile) :> File(T_abc, 0)) @@ (Resolve(OutDir) :> Dir) @@ RootOnly
WithOutBlocked == (Resolve(OutDir) :> File(<< >>, 0)) @@ RootOnly
WriteFileSystems == {RootOnly, WithOutFile, WithOutBlocked}

WriteOutputs == {PyVal(OutFile), PyVal(OutNested)}
WriteEnvs ==
  {EnvNone, EnvList(<<RuleInvalid, RuleCD>>),
   EnvDict(<<DictItem(RuleA.name, RuleA.value)>>)}
WriteAnswers ==
  {HttpResponse(200, T_abc), HttpResponse(200, B_png), HttpResponse(404, NotFoundBody)}

WriteFaults == {"none", "mkdir", "write"}

InitWrite ==
  /\ token = PyNone
  /\ last_file_written = Unset
  /\ fs \in WriteFileSystems
  /\ clock = 0
  /\ call = NoCall
  /\ SubstIdle
  /\ SyncIdle

\* A call at the current time or one tick later.
WriteCall ==
  /\ call.n < MaxWrites
  /\ \E output_path \in WriteOutputs, env_vars \in WriteEnvs, raw \in WriteAnswers,
        fault \in WriteFaults, now \in {clock, clock + 1} :
       Download(Repo, Str(<<"m", "a", "i", "n">>), Str(<<"a", ".", "t", "x", "t">>),
                output_path, env_vars, [raw |-> raw, api |-> TransportError],
                fault, now)
  /\ UNCHANGED substVars
  /\ UNCHANGED syncVars
  /\ UNCHANGED mainVars

NextWrite == WriteCall

SpecWrite == InitWrite /\ [][NextWrite]_vars

(***************************************************************************)
(* RepoFileSync.sync over bounded configurations.                          *)
(***************************************************************************)

MaxSources == 2
MaxFiles == 3

Main == Str(<<"m", "a", "i", "n">>)
SourceTwoFiles ==
  [repo |-> Repo, ref |-> Main,
   files |-> << Str(<<"a", ".", "t", "x", "t">>), Str(<<"d", "/", "a", ".", "t", "x", "t">>) >>]
SourceOneFile ==
  [repo |-> Str(<<"p", "/", "q">>), ref |-> Str(<<"v", "1">>),
   files |-> << Str(<<"a", ".", "t", "x", "t">>) >>]
SourceNoFiles == [repo |-> Repo, ref |-> Main, files |-> << >>]
SourceChoices == {SourceTwoFiles, SourceOneFile, SourceNoFiles}

\* Rule lists as load_config gives them.
SyncEnvs == {<< >>, <<RuleA>>, <<RuleA, RuleB>>}

SyncConfigs ==
  {[envs |-> envs, sources |-> sources] :
     envs \in SyncEnvs,
     sources \in {s \in UNION {[1..k -> SourceChoices] : k \in 0..MaxSources} :
                    FilesBefore(s, Len(s)) <= MaxFiles}}

SyncOpts ==
  {[output_dir |-> OutDir, dry_run |-> d, preserve_structure |-> p] :
     d \in BOOLEAN, p \in BOOLEAN}

SyncAnswers ==
  {HttpResponse(200, T_abc), HttpResponse(200, B_png), HttpResponse(404, NotFoundBody)}
SyncFaults == {"none", "open"}

\* The disk faults a file of sync may meet: with preserve_structure the
\* parent directory is the one to make, so the refusal falls on mkdir;
\* flattened, the parent is the output directory and it falls on open.
SyncFaultsIn(preserve_structure) ==
  IF preserve_structure THEN {"none", "mkdir"} ELSE SyncFaults

\* The arguments of a sync call and the disk it finds.
SyncArguments ==
  /\ token = PyNone
  /\ last_file_written = Unset
  /\ fs \in {RootOnly, WithOutBlocked}
  /\ clock = 0
  /\ call = NoCall
  /\ SubstIdle
  /\ config \in SyncConfigs
  /\ opts \in SyncOpts
  /\ sync_env_vars = EnvNone
  /\ src_i = 0
  /\ file_j = 0
  /\ result = NewSyncResult
  /\ source_result = NewSyncResult
  /\ log = << >>

InitSync ==
  /\ SyncArguments
  /\ pc = "start"
  /\ MainIdle
  /\ GitIdle

\* The output directory made in a dry run too.
MakesOutputDirAlwaysMutant(dry_run) == TRUE

\* if not dry_run: output_dir.mkdir(parents=True, exist_ok=True)
MakesOutputDir(dry_run) == ~dry_run

\* sync up to its loop: the output directory is made unless this is a dry
\* run (an OSError leaves sync), and the env_vars dictionary is built.
SyncStart ==
  /\ pc = "start"
  /\ IF MakesOutputDir(opts.dry_run) /\ ~Mkdir(fs, opts.output_dir).ok
       THEN /\ pc' = "raised"
            /\ UNCHANGED <<fs, sync_env_vars, src_i, file_j>>
       ELSE /\ pc' = "files"
            /\ fs' = IF MakesOutputDir(opts.dry_run)
                       THEN Mkdir(fs, opts.output_dir).fs ELSE fs
            /\ sync_env_vars' = EnvVarsOf(config.envs)
            /\ src_i' = 1
            /\ file_j' = 1
  /\ UNCHANGED <<token, last_file_written, clock, call>>
  /\ UNCHANGED <<config, opts, result, source_result, log>>
  /\ UNCHANGED substVars
  /\ UNCHANGED mainVars

\* The source and the file the loops are at.
Source == config.sources[src_i]
FullFileId == FileId(Source.repo, Source.ref, Source.files[file_j])

\* getattr(self.github_client, "last_file_written", True)
FileWritten == IF last_file_written.set THEN last_file_written.v ELSE TRUE

\* One turn of the loop of _sync_source: the file is recorded without a
\* download in a dry run; otherwise download_file is called once and its
\* return or its exception recorded.
SyncFile ==
  /\ pc = "files"
  /\ src_i <= Len(config.sources)
  /\ file_j <= Len(Source.files)
  /\ IF opts.dry_run
       THEN /\ source_result' = AddSuccess(source_result, FullFileId, 0)
            /\ UNCHANGED <<clientVars, log>>
       ELSE \E raw \in SyncAnswers, fault \in SyncFaultsIn(opts.preserve_structure),
               now \in {clock, clock + 1} :
              /\ Download(Source.repo, Source.ref, Source.files[file_j],
                          PyVal(OutputPath(opts.output_dir, opts.preserve_structure,
                                           Source.repo, Source.files[file_j])),
                          sync_env_vars, [raw |-> raw, api |-> TransportError],
                          fault, now)
              /\ fault # "none" => call'.out.exc = "OSError"
              /\ fs' = fs => now = clock
              /\ source_result' = Recorded(source_result, FullFileId, call'.out)
              /\ log' = Append(log, [id |-> FullFileId, written |-> FileWritten,
                                     call |-> call'])
  /\ file_j' = file_j + 1
  /\ UNCHANGED <<pc, config, opts, sync_env_vars, src_i, result>>
  /\ UNCHANGED substVars
  /\ UNCHANGED mainVars

\* _sync_source returns and sync merges its result.
SyncMerge ==
  /\ pc = "files"
  /\ src_i <= Len(config.sources)
  /\ file_j > Len(Source.files)
  /\ result' = Merge(result, source_result)
  /\ source_result' = NewSyncResult
  /\ src_i' = src_i + 1
  /\ file_j' = 1
  /\ UNCHANGED <<pc, config, opts, sync_env_vars, log>>
  /\ UNCHANGED clientVars
  /\ UNCHANGED substVars
  /\ UNCHANGED mainVars

SyncReturn ==
  /\ pc = "files"
  /\ src_i > Len(config.sources)
  /\ pc' = "done"
  /\ UNCHANGED <<config, opts, sync_env_vars, src_i, file_j, result, source_result, log>>
  /\ UNCHANGED clientVars
  /\ UNCHANGED substVars
  /\ UNCHANGED mainVars

NextSync == SyncStart \/ SyncFile \/ SyncMerge \/ SyncReturn

\* An except clause that catches whatever is raised.
CatchesBaseExceptionMutant(exc) == TRUE

\* except Exception: KeyboardInterrupt derives from BaseException only.
Catches(exc) == exc # "KeyboardInterrupt"

\* The user interrupts the process while _sync_source is at a file: the
\* KeyboardInterrupt goes by the except clause of the loop and leaves sync.
SyncInterrupt ==
  /\ pc = "files"
  /\ src_i <= Len(config.sources)
  /\ file_j <= Len(Source.files)
  /\ IF Catches("KeyboardInterrupt")
       THEN /\ source_result' = AddFailure(source_result, FullFileId,
                                           [exc |-> "KeyboardInterrupt", msg |-> << >>])
            /\ file_j' = file_j + 1
            /\ pc' = pc
       ELSE /\ pc' = "interrupted"
            /\ UNCHANGED <<source_result, file_j>>
  /\ UNCHANGED <<config, opts, sync_env_vars, src_i, result, log>>
  /\ UNCHANGED clientVars
  /\ UNCHANGED substVars
  /\ UNCHANGED mainVars

SpecSync == InitSync /\ [][NextSync]_vars

(***************************************************************************)
(* sync on configurations as load_config lets them through: it asks of a   *)
(* repository only that it holds a "/", and of a file only that it is a    *)
(* string.                                                                 *)
(***************************************************************************)

\* load_config: if "/" not in repo: raise ValueError
RepoAccepted(repo) == \E k \in 1..Len(repo) : repo[k] = ChSlash

A_txt == Str(<<"a", ".", "t", "x", "t">>)
Repo_a_b_c == Str(<<"a", "/", "b", "_", "c">>)
Repo_ab_c == Str(<<"a", "_", "b", "/", "c">>)
SourceUnderscoreRight == [repo |-> Repo_a_b_c, ref |-> Main, files |-> <<A_txt>>]
SourceUnderscoreLeft == [repo |-> Repo_ab_c, ref |-> Main, files |-> <<A_txt>>]
SourceAtV1 == [repo |-> Repo, ref |-> Str(<<"v", "1">>), files |-> <<A_txt>>]
SourceAtMain == [repo |-> Repo, ref |-> Main, files |-> <<A_txt>>]
SourceAbsolute == [repo |-> Repo, ref |-> Main, files |-> <<Str(<<"/", "t", "/", "a", ".", "t", "x", "t">>)>>]
SourceDotDot == [repo |-> Repo, ref |-> Main, files |-> <<Str(<<".", ".", "/", "a", ".", "t", "x", "t">>), Str(<<".", ".", "/", ".", ".", "/", "a", ".", "t", "x", "t">>)>>]
SourceParentName == [repo |-> Repo, ref |-> Main, files |-> <<Str(<<".", ".">>), Str(<<"d", "/", ".", ".", "/", "a", ".", "t", "x", "t">>)>>]
PathSources ==
  {s \in {SourceUnderscoreRight, SourceUnderscoreLeft, SourceAtV1, SourceAtMain,
          SourceAbsolute, SourceDotDot, SourceParentName} : RepoAccepted(s.repo)}

PathConfigs ==
  {[envs |-> << >>, sources |-> sources] :
     sources \in {s \in UNION {[1..k -> PathSources] : k \in 1..MaxSources} :
                    FilesBefore(s, Len(s)) <= MaxFiles}}

InitPaths ==
  /\ token = PyNone
  /\ last_file_written = Unset
  /\ fs = RootOnly
  /\ clock = 0
  /\ call = NoCall
  /\ SubstIdle
  /\ config \in PathConfigs
  /\ opts \in SyncOpts
  /\ sync_env_vars = EnvNone
  /\ src_i = 0
  /\ file_j = 0
  /\ result = NewSyncResult
  /\ source_result = NewSyncResult
  /\ log = << >>
  /\ pc = "start"
  /\ MainIdle
  /\ GitIdle

SpecPaths == InitPaths /\ [][NextSync]_vars

(***************************************************************************)
(* main of cli.py: the arguments, the sync it runs, the report and the     *)
(* exit code.                                                              *)
(***************************************************************************)

\* One logger.error call of main: what it says, and the file identifier and
\* the exception it names, if any.
NoException == [exc |-> "", msg |-> << >>]
ErrorLine(what, id, error) == [what |-> what, id |-> id, error |-> error]
Says(what) == ErrorLine(what, << >>, NoException)

\* The attributes a SyncResult has: those __init__ assigns and the
\* properties of the class.
SyncResultAttributes ==
  DOMAIN NewSyncResult \cup {"success_count", "failure_count", "is_success"}

\* How main ends: the code given to sys.exit, what it logged as errors and
\* the client methods pull-request creation called.
MainOutcome(code, errs, calls) == [exit_code |-> code, errors |-> errs, pr_calls |-> calls]

\* create_pull_request of cli.py: the repository is read from the
\* environment, the branch is pushed, then the pull request is opened.
CreatePullRequest(env) ==
  IF ~Truthy(env.github_repository)
    THEN [ok |-> FALSE, calls |-> << >>,
          errors |-> <<Says("GITHUB_REPOSITORY environment variable not set")>>]
  ELSE IF ~env.pushed
    THEN [ok |-> FALSE, calls |-> <<"setup_git_and_push">>,
          errors |-> <<Says("Failed to setup git and push changes")>>]
  ELSE IF Truthy(env.pr_url)
    THEN [ok |-> TRUE, calls |-> <<"setup_git_and_push", "create_pull_request">>,
          errors |-> << >>]
  ELSE [ok |-> FALSE, calls |-> <<"setup_git_and_push", "create_pull_request">>,
        errors |-> <<Says("Failed to create pull request")>>]

\* Every run of main exiting with 0 once sync has returned.
ExitCodeOfAlwaysZeroMutant(res) == 0

\* sys.exit(0 if result.is_success else 1)
ExitCodeOf(res) == IF IsSuccess(res) THEN 0 ELSE 1

\* The except Exception clause of main.
Unexpected(exc) ==
  MainOutcome(1, <<ErrorLine("Unexpected error", << >>, [exc |-> exc, msg |-> << >>])>>, << >>)

\* for file_path, error in result.failed_files: logger.error(...)
FailureLines(res) ==
  [k \in 1..Len(res.failed_files) |->
     ErrorLine("failure", res.failed_files[k].id, res.failed_files[k].error)]

\* if not pr_created: logger.error(...); sys.exit(1)
AfterCreatePullRequest(res, created) ==
  IF ~created.ok
    THEN MainOutcome(1, created.errors \o <<Says("Failed to create pull request")>>,
                     created.calls)
    ELSE MainOutcome(ExitCodeOf(res), << >>, created.calls)

\* "Report results" and the exit of main, for the result sync returned.
\* Reading result.synced_files raises AttributeError when a SyncResult has
\* no such attribute, and the except Exception clause takes it.
Report(res, dry_run, create_pr, env) ==
  IF ~IsSuccess(res)
    THEN MainOutcome(ExitCodeOf(res),
                     <<Says("Sync completed with errors")>> \o FailureLines(res), << >>)
  ELSE IF dry_run \/ ~create_pr THEN MainOutcome(ExitCodeOf(res), << >>, << >>)
  ELSE IF "synced_files" \notin SyncResultAttributes THEN Unexpected("AttributeError")
  ELSE IF res.synced_files = << >> THEN MainOutcome(ExitCodeOf(res), << >>, << >>)
  ELSE AfterCreatePullRequest(res, CreatePullRequest(env))

MainArgs ==
  {[test_connection |-> t, create_pr |-> c, config_exists |-> e, config_loads |-> l] :
     t \in BOOLEAN, c \in BOOLEAN, e \in BOOLEAN, l \in BOOLEAN}

NoGit == [none |-> TRUE]
GitAnswer(r, p, u) == [github_repository |-> r, pushed |-> p, pr_url |-> u]
GitAnswers ==
  {GitAnswer(PyNone, FALSE, PyNone), GitAnswer(PyVal(Repo), FALSE, PyNone),
   GitAnswer(PyVal(Repo), TRUE, PyNone),
   GitAnswer(PyVal(Repo), TRUE, PyVal(Str(<<"u", "r", "l">>)))}

\* main is run on the configurations without rules.
InitMain ==
  /\ SyncArguments
  /\ config.envs = << >>
  /\ pc = "main"
  /\ args \in MainArgs
  /\ exit_code = PyNone
  /\ errors = << >>
  /\ git = NoGit
  /\ pr_calls = << >>
  /\ GitIdle

\* sys.exit(code) after what main did.
Exits(out) ==
  /\ pc' = "exited"
  /\ exit_code' = PyVal(out.exit_code)
  /\ errors' = errors \o out.errors
  /\ pr_calls' = out.pr_calls

\* main up to the sync call: a missing configuration file, a connection
\* test and a configuration that does not load end it.
MainStart ==
  /\ pc = "main"
  /\ IF ~args.test_connection /\ ~args.config_exists
       THEN Exits(MainOutcome(1, <<Says("Configuration file not found")>>, << >>))
     ELSE IF args.test_connection
       THEN \E is_connected \in BOOLEAN :
              Exits(MainOutcome(IF is_connected THEN 0 ELSE 1, << >>, << >>))
     ELSE IF ~args.config_loads
       THEN Exits(MainOutcome(1, <<Says("Failed to load configuration")>>, << >>))
     ELSE /\ pc' = "start"
          /\ UNCHANGED <<exit_code, errors, pr_calls>>
  /\ UNCHANGED <<args, git>>
  /\ UNCHANGED gitVars
  /\ UNCHANGED <<config, opts, sync_env_vars, src_i, file_j, result, source_result, log>>
  /\ UNCHANGED clientVars
  /\ UNCHANGED substVars

\* The except KeyboardInterrupt clause of main: logger.info, sys.exit(130).
Interrupted == MainOutcome(130, << >>, << >>)

\* main after sync returned or raised.
MainReport ==
  /\ ~MainIdle
  /\ pc \in {"done", "raised", "interrupted"}
  /\ \E env \in (IF args.create_pr /\ pc = "done" THEN GitAnswers ELSE {NoGit}) :
       /\ git' = env
       /\ Exits(IF pc = "raised" THEN Unexpected("OSError")
                ELSE IF pc = "interrupted" THEN Interrupted
                ELSE Report(result, opts.dry_run, args.create_pr, env))
  /\ UNCHANGED args
  /\ UNCHANGED gitVars
  /\ UNCHANGED <<config, opts, sync_env_vars, src_i, file_j, result, source_result, log>>
  /\ UNCHANGED clientVars
  /\ UNCHANGED substVars

NextMain == MainStart \/ NextSync \/ SyncInterrupt \/ MainReport

SpecMain == InitMain /\ [][NextMain]_vars

(***************************************************************************)
(* The git operations of the client.  Each runs git subprocesses; the      *)
(* environment says which of them exit with a failure.                     *)
(***************************************************************************)

MaxGitFaults == 2

\* The subprocesses whose failure the code looks at: those run with
\* check=True, and git rev-parse, whose returncode is read.
GitCommands ==
  {"config user.name", "config user.email", "rev-parse", "fetch branch",
   "checkout branch", "reset --hard", "checkout -b origin/branch",
   "fetch base", "checkout -b origin/base", "checkout -b", "add file",
   "add -N", "add .", "commit", "push", "push --force-with-lease"}

\* failing: the subprocesses that exit non-zero; configured: the client's
\* _git_configured; local_branch: git branch --list prints the branch;
\* dirty: git diff --cached or git status prints something; changed: the
\* second git status prints something.
GitEnvs ==
  {[failing |-> f, configured |-> c, local_branch |-> l, dirty |-> d, changed |-> g] :
     f \in {x \in SUBSET GitCommands : Cardinality(x) <= MaxGitFaults},
     c \in BOOLEAN, l \in BOOLEAN, d \in BOOLEAN, g \in BOOLEAN}

\* The subprocesses run so far, and whether a CalledProcessError is on its
\* way to the enclosing except clause.
GitStart == [ok |-> TRUE, ran |-> << >>]

\* subprocess.run(cmd, check=check): nothing runs once an error is raised.
Run(env, st, cmd, check) ==
  IF ~st.ok THEN st
  ELSE [ok |-> ~check \/ cmd \notin env.failing, ran |-> Append(st.ran, cmd)]

\* An except clause caught the error.
Caught(st) == [st EXCEPT !.ok = TRUE]

GitOutcome(ret, exc, ran) == [ret |-> ret, exc |-> exc, ran |-> ran]

\* _setup_git_config: its except clause logs and raises again.
SetupGitConfig(env, st, configured) ==
  IF configured THEN st
  ELSE Run(env, Run(env, Run(env, st, "config safe.directory", FALSE),
                    "config user.name", TRUE),
           "config user.email", TRUE)

\* create_branch, the inner try: fetch the branch and check it out.
CheckoutExisting(env, st) ==
  IF env.local_branch
    THEN Run(env, Run(env, Run(env, Run(env, st, "fetch branch", TRUE),
                               "branch --list", FALSE),
                      "checkout branch", TRUE),
             "reset --hard", TRUE)
    ELSE Run(env, Run(env, Run(env, st, "fetch branch", TRUE),
                      "branch --list", FALSE),
             "checkout -b origin/branch", TRUE)

\* create_branch, the inner except: a new branch from the base branch, or
\* from the current HEAD.
CheckoutFallback(env, from_base) ==
  IF from_base.ok THEN from_base
  ELSE Run(env, Caught(from_base), "checkout -b", TRUE)

CreateNewBranch(env, st) ==
  CheckoutFallback(env,
    Run(env, Caught(Run(env, Caught(st), "fetch base", TRUE)),
        "checkout -b origin/base", TRUE))

\* create_branch after the configuration step.
BranchAfterConfig(env, cfg, existing) ==
  IF ~cfg.ok THEN GitOutcome(PyVal(FALSE), "", cfg.ran)
  ELSE IF "rev-parse" \in env.failing
    THEN GitOutcome(PyVal(FALSE), "", Append(cfg.ran, "rev-parse"))
  ELSE IF existing.ok THEN GitOutcome(PyVal(TRUE), "", existing.ran)
  ELSE GitOutcome(PyVal(CreateNewBranch(env, existing).ok), "",
                  CreateNewBranch(env, existing).ran)

\* create_branch: the whole body, the configuration step included, is in
\* one try whose except clause returns False.
CreateBranch(env, st, configured) ==
  BranchAfterConfig(env, SetupGitConfig(env, st, configured),
    CheckoutExisting(env,
      Run(env, Run(env, Run(env, SetupGitConfig(env, st, configured),
                            "rev-parse", FALSE),
                   "branch --show-current", FALSE),
          "branch -a", FALSE)))

\* add_files_and_push up to changed_files.
DetectChanges(env, st, files_to_add) ==
  IF env.dirty THEN st
  ELSE IF files_to_add # << >>
    THEN Run(env, Run(env, st, "add file", TRUE), "status", FALSE)
  ELSE Run(env, Run(env, Run(env, st, "add -N", TRUE), "reset pycache", FALSE),
           "status", FALSE)

\* add_files_and_push: a push that fails is tried again with
\* --force-with-lease.
Push(env, committed) ==
  IF committed.ok /\ "push" \in env.failing
    THEN Run(env, Caught(Run(env, committed, "push", TRUE)),
             "push --force-with-lease", TRUE)
    ELSE Run(env, committed, "push", TRUE)

CommitAndPush(env, st) ==
  Push(env, Run(env, Run(env, Run(env, st, "add .", TRUE), "reset pycache", FALSE),
                "commit", TRUE))

AfterDetect(env, detected) ==
  IF ~detected.ok THEN GitOutcome(PyVal(FALSE), "", detected.ran)
  ELSE IF ~(env.dirty \/ env.changed) THEN GitOutcome(PyVal(TRUE), "", detected.ran)
  ELSE GitOutcome(PyVal(CommitAndPush(env, detected).ok), "",
                  CommitAndPush(env, detected).ran)

\* add_files_and_push: one try whose except clause returns False.
AddFilesAndPush(env, st, files_to_add) ==
  AfterDetect(env,
    DetectChanges(env, Run(env, Run(env, st, "diff --cached", FALSE), "status", FALSE),
                  files_to_add))

\* setup_git_and_push after the branch was made.
PushAfterBranch(env, branch) ==
  IF branch.ret # PyVal(TRUE) THEN branch
  ELSE AddFilesAndPush(env, [ok |-> TRUE, ran |-> branch.ran], << >>)

\* setup_git_and_push after the configuration step, which it runs outside
\* any try.
PushAfterConfig(env, cfg, staged) ==
  IF ~cfg.ok THEN GitOutcome(PyNone, "CalledProcessError", cfg.ran)
  ELSE IF ~staged.ok THEN GitOutcome(PyVal(FALSE), "", staged.ran)
  ELSE PushAfterBranch(env, CreateBranch(env, staged, TRUE))

StageCommand(files_to_add) == IF files_to_add # << >> THEN "add file" ELSE "add ."

SetupGitAndPush(env, files_to_add) ==
  PushAfterConfig(env, SetupGitConfig(env, GitStart, env.configured),
    Run(env, SetupGitConfig(env, GitStart, env.configured),
        StageCommand(files_to_add), TRUE))

FilesToAdd == {<< >>, <<"f">>}

InitGit ==
  /\ SubstIdle
  /\ ClientIdle
  /\ MainIdle
  /\ pc = "idle"
  /\ config = [envs |-> << >>, sources |-> << >>]
  /\ opts = [none |-> TRUE]
  /\ sync_env_vars = EnvNone
  /\ src_i = 0
  /\ file_j = 0
  /\ result = NewSyncResult
  /\ source_result = NewSyncResult
  /\ log = << >>
  /\ git_env \in GitEnvs
  /\ git_out = Pending

GitCalled(op, files_to_add, out) ==
  /\ git_out = Pending
  /\ git_env \in GitEnvs
  /\ git_out' = [done |-> TRUE, op |-> op, files |-> files_to_add,
                 ret |-> out.ret, exc |-> out.exc, ran |-> out.ran]
  /\ UNCHANGED <<git_env, args, exit_code, errors, git, pr_calls>>
  /\ UNCHANGED syncVars
  /\ UNCHANGED clientVars
  /\ UNCHANGED substVars

CreateBranchCall ==
  GitCalled("create_branch", << >>, CreateBranch(git_env, GitStart, git_env.configured))

AddFilesAndPushCall ==
  \E files_to_add \in FilesToAdd :
    GitCalled("add_files_and_push", files_to_add,
              AddFilesAndPush(git_env, GitStart, files_to_add))

SetupGitAndPushCall ==
  \E files_to_add \in FilesToAdd :
    GitCalled("setup_git_and_push", files_to_add, SetupGitAndPush(git_env, files_to_add))

NextGit == CreateBranchCall \/ AddFilesAndPushCall \/ SetupGitAndPushCall

SpecGit == InitGit /\ [][NextGit]_vars

Init == InitSubst \/ InitFetch \/ InitWrite \/ InitSync \/ InitPaths \/ InitMain \/ InitGit
Next == NextSubst \/ NextFetch \/ NextWrite \/ NextSync \/ NextMain \/ NextGit
Spec == Init /\ [][Next]_vars

(***************************************************************************)
(* Claims about the substitution engine.                                   *)
(***************************************************************************)

\* C7: the rules are applied in declared order, each to the text the rules
\* before it produced: on "abc", ab->x then bc->y gives "xc" and bc->y then
\* ab->x gives "ay"; and for any list ending in a literal rule, the result is
\* that rule applied to the result of the list without it.
C7_SequentialInOrder ==
  (sub_out.done /\ sub_in.env_vars.kind = "list") =>
    LET items == sub_in.env_vars.items
        n     == Len(items)
    IN  /\ (sub_in.content = T_abc /\ items = <<RuleA, RuleB>>)
             => sub_out.content = Str(<<"x", "c">>)
        /\ (sub_in.content = T_abc /\ items = <<RuleB, RuleA>>)
             => sub_out.content = Str(<<"a", "y">>)
        /\ (n >= 1 /\ "regex" \notin DOMAIN items[n] /\ Utf8Decode(sub_in.content).ok)
             => LET before == SubstituteEnvVars(sub_in.content,
                                                EnvList(SubSeq(items, 1, n - 1)))
                IN  sub_out.content =
                      Utf8Encode(StrReplace(Utf8Decode(before.content).text,
                                            items[n].name, items[n].value))

C7_Witness ==
  /\ sub_out.done
  /\ sub_in.content = T_abc
  /\ sub_in.env_vars = EnvList(<<RuleA, RuleB>>)
  /\ sub_out.content = Str(<<"x", "c">>)

\* C9: a regex rule's $k references are replaced, at every non-overlapping
\* match, by the text of the match's k-th group.
C9_CaptureGroups ==
  sub_out.done =>
    /\ (sub_in.content = T_versions /\ sub_in.env_vars = EnvList(<<RuleVersion>>))
         => (sub_out.exc = "" /\ sub_out.content = T_versions_out)
    /\ (sub_in.content = T_abc /\ sub_in.env_vars = EnvList(<<RuleSwap>>))
         => (sub_out.exc = "" /\ sub_out.content = Str(<<"b", "a", "c">>))

C9_Witness ==
  /\ sub_out.done
  /\ sub_in.content = T_versions
  /\ sub_in.env_vars = EnvList(<<RuleVersion>>)
  /\ sub_out.content = T_versions_out

\* A regex rule whose pattern does not compile.
InvalidPattern(e) == DictGet(e, "regex", FALSE) /\ ~ReCompile(e.name).ok

\* C10: a regex rule whose pattern does not compile raises nothing, and the
\* result is the result of the list without that rule: the text is as it was
\* before the rule and the rules before and after it are applied.
C10_InvalidPatternSkipped ==
  (sub_out.done /\ sub_in.env_vars.kind = "list") =>
    /\ sub_out.exc = ""
    /\ sub_out.content =
         SubstituteEnvVars(sub_in.content,
                           EnvList(SelectSeq(sub_in.env_vars.items,
                                             LAMBDA e : ~InvalidPattern(e)))).content
    /\ (sub_in.env_vars.items = <<RuleInvalid>>) => sub_out.content = sub_in.content

C10_Witness ==
  /\ sub_out.done
  /\ sub_in.content = T_abc
  /\ sub_in.env_vars = EnvList(<<RuleA, RuleInvalid, RuleCD>>)
  /\ sub_out.exc = ""
  /\ sub_out.content = Str(<<"x", "d">>)

\* A call with the checkout rule alone on a text that decodes.
CheckoutCall ==
  /\ sub_out.done
  /\ sub_in.env_vars.kind = "list"
  /\ Len(sub_in.env_vars.items) = 1
  /\ sub_in.env_vars.items[1] \in FlagRules
  /\ Utf8Decode(sub_in.content).ok

T_checkout_both ==
  Str(<<"c", "h", "e", "c", "k", "o", "u", "t", " ", "v", "5", " ", "a", "n", "d", " ",
        "c", "h", "e", "c", "k", "o", "u", "t", " ", "v", "5">>)
T_checkout_first ==
  Str(<<"c", "h", "e", "c", "k", "o", "u", "t", " ", "v", "5", " ", "a", "n", "d", " ",
        "C", "H", "E", "C", "K", "O", "U", "T", " ", "V", "4">>)

\* C11: a regex rule whose flags string holds the letter i (in either case)
\* replaces the occurrences of its pattern in every letter case, and one
\* without it only the occurrences in the pattern's own case: the pattern
\* "checkout v4" on "checkout v4 and CHECKOUT V4" replaces both occurrences
\* with the flag and the first one only without it.
C11_CaseInsensitiveFlag ==
  CheckoutCall =>
    /\ sub_out.exc = ""
    /\ Contains(Lower(sub_in.env_vars.items[1].flags), <<Ord("i")>>)
         => Lower(sub_out.content)
              = StrReplace(Lower(sub_in.content), P_checkout, V_checkout)
    /\ ~Contains(Lower(sub_in.env_vars.items[1].flags), <<Ord("i")>>)
         => sub_out.content = StrReplace(sub_in.content, P_checkout, V_checkout)
    /\ sub_in.content = T_checkout
         => sub_out.content
              = IF Contains(Lower(sub_in.env_vars.items[1].flags), <<Ord("i")>>)
                  THEN T_checkout_both ELSE T_checkout_first

C11_Witness ==
  /\ CheckoutCall
  /\ sub_in.content = T_checkout
  /\ sub_in.env_vars.items[1] = RuleCheckout(Str(<<"i">>))
  /\ sub_out.content = T_checkout_both

\* A call with one of the dollar rules alone on the text "abc".
DollarCall ==
  /\ sub_out.done
  /\ sub_in.content = T_abc
  /\ sub_in.env_vars.kind = "list"
  /\ Len(sub_in.env_vars.items) = 1
  /\ sub_in.env_vars.items[1] \in DollarRules

\* C30: a regex rule whose replacement holds a "$" that no digit follows
\* is applied, and the "$" stands in the output as it was written: on "abc"
\* the pattern "b" with the replacement "$x" gives "a$xc".
C30_DollarStaysLiteral ==
  DollarCall =>
    /\ sub_out.exc = ""
    /\ sub_out.content
         = Str(<<"a">>) \o sub_in.env_vars.items[1].value \o Str(<<"c">>)

\* What the code gives: every "$" becomes a backslash, the rule is skipped
\* where the template is then in error, and no "$" reaches the output.
DollarNeverLiteral ==
  DollarCall =>
    /\ sub_out.exc = ""
    /\ ~Contains(sub_out.content, <<ChDollar>>)
    /\ sub_in.env_vars.items[1].value \in {Str(<<"$", "x">>), Str(<<"x", "$">>)}
         => sub_out.content = T_abc
    /\ sub_in.env_vars.items[1].value = Str(<<"$", ".">>)
         => sub_out.content = <<Ord("a"), ChBackslash, ChDot, Ord("c")>>

(***************************************************************************)
(* Claims about the fetch paths.                                           *)
(***************************************************************************)

\* The raw endpoint answered with an error: no answer at all, or an HTTP
\* status of the 4xx or 5xx class.
ErrorAnswer(resp) ==
  resp.kind = "error" \/ (resp.status >= 400 /\ resp.status <= 599)

\* The contents API answered with a base64 content field that decodes.
ApiSucceeds(resp) ==
  /\ ~ErrorAnswer(resp)
  /\ resp.body.shape = "object"
  /\ DOMAIN resp.body.fields = {"encoding", "content"}
  /\ resp.body.fields.encoding = JsonString(Base64Name)
  /\ resp.body.fields.content.str
  /\ B64Decode(resp.body.fields.content.v).ok

\* C4 as stated: whenever the raw request fails, a status other than 200
\* counting as failure, and a token is configured, the contents API is
\* attempted and its decoded content returned if it succeeds.
C4_FallbackOnNon200 ==
  (call.done /\ Truthy(token)
     /\ (call.net.raw.kind = "error" \/ call.net.raw.status # 200)) =>
    /\ call.out.reqs = <<"raw", "api">>
    /\ ApiSucceeds(call.net.api) =>
         call.out.ret = PyVal(B64Decode(call.net.api.body.fields.content.v).bytes)

\* C4: when the raw request fails with a transport error or a 4xx/5xx
\* status and a token is configured, the contents API is attempted after
\* it, and if that succeeds download_file returns the base64-decoded bytes
\* of its content field instead of failing.
C4_FallbackToApi ==
  (call.done /\ Truthy(token) /\ ErrorAnswer(call.net.raw)) =>
    /\ call.out.reqs = <<"raw", "api">>
    /\ ApiSucceeds(call.net.api) =>
         /\ call.out.exc = ""
         /\ call.out.ret = PyVal(B64Decode(call.net.api.body.fields.content.v).bytes)
         /\ call.net.api.body.fields.content.v \in {B64_abc, B64_abc_lines}
              => call.out.ret = PyVal(T_abc)
         /\ call.net.api.body.fields.content.v = B64_png
              => call.out.ret = PyVal(B_png)

C4_Witness ==
  /\ call.done
  /\ Truthy(token)
  /\ call.net.raw = HttpResponse(404, NotFoundBody)
  /\ call.net.api = HttpResponse(200, ContentsObject(Base64Name, JsonString(B64_abc)))
  /\ call.out.reqs = <<"raw", "api">>
  /\ call.out.ret = PyVal(T_abc)

\* The contents API path fails: the request fails, or the body is not JSON,
\* names another encoding, lacks the content field, or holds text that is
\* not base64.
ApiFails(resp) ==
  \/ ErrorAnswer(resp)
  \/ resp.body.shape = "malformed"
  \/ /\ resp.body.shape = "object"
     /\ \/ "encoding" \notin DOMAIN resp.body.fields
        \/ resp.body.fields.encoding # JsonString(Base64Name)
        \/ "content" \notin DOMAIN resp.body.fields
        \/ /\ resp.body.fields.content.str
           /\ ~B64Decode(resp.body.fields.content.v).ok

C20_RequestsPerCall ==
  call.done =>
    /\ Len(call.out.reqs) \in {1, 2}
    /\ call.out.reqs[1] = "raw"
    /\ Len(call.out.reqs) = 2 =>
         /\ call.out.reqs[2] = "api"
         /\ ErrorAnswer(call.net.raw)
         /\ Truthy(token)
    /\ (call.net.raw.kind = "http" /\ call.net.raw.status = 200) =>
         call.out.reqs = <<"raw">>
    /\ ~Truthy(token) => call.out.reqs = <<"raw">>

\* A raw 200 on a client with a token: one request, the API not asked
\* though it would have answered.
C20_Witness ==
  /\ call.done
  /\ Truthy(token)
  /\ call.net.raw = HttpResponse(200, T_abc)
  /\ call.net.api = HttpResponse(200, ContentsObject(Base64Name, JsonString(B64_png)))
  /\ call.out.reqs = <<"raw">>
  /\ call.out.ret = PyVal(T_abc)

\* A request of the call met a transport error and the call failed.
TransportFailure ==
  /\ call.done
  /\ call.out.exc # ""
  /\ \/ call.net.raw.kind = "error"
     \/ Len(call.out.reqs) = 2 /\ call.net.api.kind = "error"

\* What sync records for a file that is simply not there.
GenericNotFound ==
  [exc |-> "FileNotFoundError",
   msg |-> NotFoundPrefix \o FileId(call.repo, call.ref, call.file_path)]

\* C21: when a download_file call fails after a transport error on a fetch
\* path, the failure sync records for the file carries more than the
\* generic not-found error: it differs from what is recorded for a file
\* that is not there.
C21_TransportErrorDescribed ==
  TransportFailure =>
    Recorded(NewSyncResult, FileId(call.repo, call.ref, call.file_path),
             call.out).failed_files[1].error # GenericNotFound

\* The contents API answered 200 with a body the API path cannot use.
BadApiBody ==
  /\ call.done
  /\ call.out.reqs = <<"raw", "api">>
  /\ call.net.api.kind = "http" /\ call.net.api.status = 200
  /\ ~ApiSucceeds(call.net.api)

\* C22: when the contents API answers 200 with a body that is malformed
\* JSON, is not an object with base64 encoding, lacks the content field or
\* holds content that is not valid base64, download_file raises
\* FileNotFoundError; and no call ends with another kind of exception.
C22_ApiDecodeErrorsAreNotFound ==
  /\ BadApiBody => call.out.exc = "FileNotFoundError"
  /\ call.done => call.out.exc \in {"", "FileNotFoundError"}

(***************************************************************************)
(* Claims about saving.                                                    *)
(***************************************************************************)

\* The place the last call was to save to.
Dest == Resolve(call.output_path.v)

\* The last call was given an output path and returned.
Saved == call.done /\ ~call.output_path.none /\ call.out.exc = ""

\* The output path held a file with the bytes to be saved.
Identical ==
  /\ IsFile(call.fs_before, Dest)
  /\ call.fs_before[Dest].content = call.out.substituted.v

\* C1: when the output path already holds a file with the bytes to be
\* saved, the file is left as it was, bytes and modification time, and
\* last_file_written is False.
C1_WriteSkipped ==
  (Saved /\ Identical) =>
    /\ fs[Dest] = call.fs_before[Dest]
    /\ last_file_written = Attr(FALSE)

\* C2: when the output path holds no file, or one with other bytes, the
\* write makes the missing parent directories, leaves the file holding
\* exactly the content, and last_file_written is True.
C2_WriteCreates ==
  (Saved /\ ~Identical) =>
    /\ \A k \in 0..(Len(Dest) - 1) : IsDir(fs, SubSeq(Dest, 1, k))
    /\ IsFile(fs, Dest)
    /\ fs[Dest].content = call.out.substituted.v
    /\ last_file_written = Attr(TRUE)

\* The bytes fetched are not UTF-8.
Binary(content) == ~Utf8Decode(content).ok

\* C8: content that is not valid UTF-8 leaves the substitution engine
\* byte-identical whatever the rules, is what download_file returns, and is
\* what the output file holds after the call.
C8_BinaryUnchanged ==
  (call.done /\ ~call.out.fetched.none /\ Binary(call.out.fetched.v)) =>
    /\ \A e \in SubstEnvs \cup WriteEnvs :
         SubstituteEnvVars(call.out.fetched.v, e) = BytesOk(call.out.fetched.v)
    /\ call.out.substituted = call.out.fetched
    /\ call.out.exc = "" => call.out.ret = call.out.fetched
    /\ Saved => fs[Dest].content = call.out.fetched.v

C8_Witness ==
  /\ Saved
  /\ call.env_vars = EnvList(<<RuleInvalid, RuleCD>>)
  /\ call.out.fetched = PyVal(B_png)
  /\ call.out.ret = PyVal(B_png)
  /\ fs[Dest].content = B_png

(***************************************************************************)
(* Claims about sync.                                                      *)
(***************************************************************************)

\* The identifiers of the files of the first k sources, in configuration
\* order.
RECURSIVE IdsBefore(_, _)
IdsBefore(sources, k) ==
  IF k = 0 THEN << >>
  ELSE IdsBefore(sources, k - 1)
         \o [j \in 1..Len(sources[k].files) |->
               sources[k].repo \o <<58>> \o sources[k].ref \o <<58>> \o sources[k].files[j]]

AllIds == IdsBefore(config.sources, Len(config.sources))

\* The files the loops have gone past.
Processed ==
  IF pc \notin {"files", "done"} THEN 0
  ELSE IF src_i > Len(config.sources) THEN Len(AllIds)
  ELSE FilesBefore(config.sources, src_i - 1) + file_j - 1

\* The identifiers recorded so far, successes and failures.
OutcomeIds ==
  result.successful_files \o source_result.successful_files
    \o [k \in 1..Len(result.failed_files) |-> result.failed_files[k].id]
    \o [k \in 1..Len(source_result.failed_files) |-> source_result.failed_files[k].id]

Count(seq, x) == Cardinality({k \in 1..Len(seq) : seq[k] = x})

\* C3: a sync with a non-empty rule list in which every fetch succeeds and
\* the disk refuses nothing records every file as a success and no
\* failure, and the output file holds the fetched text with the rules
\* applied.
C3_EndToEndSubstitution ==
  (/\ pc = "done"
   /\ ~opts.dry_run
   /\ config.envs # << >>
   /\ log # << >>
   /\ \A k \in 1..Len(log) :
        log[k].call.fault = "none" /\ ~log[k].call.out.fetched.none) =>
    /\ result.failed_files = << >>
    /\ result.successful_files = AllIds
    /\ fs[Resolve(log[Len(log)].call.output_path.v)].content =
         SubstituteEnvVars(log[Len(log)].call.out.fetched.v, EnvList(config.envs)).content

\* C6: every file the loops have gone past has exactly one outcome, a
\* success or a failure; download_file was called once for it (never in a
\* dry run) with one request to the raw endpoint; and when sync returns,
\* every configured file has been gone past, whatever failed before it.
C6_OneOutcomePerFile ==
  /\ Len(OutcomeIds) = Processed
  /\ \A k \in 1..Processed :
       Count(OutcomeIds, AllIds[k]) = Count(SubSeq(AllIds, 1, Processed), AllIds[k])
  /\ IF pc # "start" /\ opts.dry_run THEN log = << >>
     ELSE /\ Len(log) = Processed
          /\ \A k \in 1..Len(log) :
               /\ log[k].id = AllIds[k]
               /\ Count(log[k].call.out.reqs, "raw") = 1
  /\ pc = "done" =>
       /\ Processed = Len(AllIds)
       /\ source_result = NewSyncResult
       /\ SuccessCount(result) + FailureCount(result) = Len(AllIds)

\* A dry run.
DryRun == pc # "idle" /\ opts.dry_run

\* C12: in a dry run no step of sync changes the file system (no output
\* directory, no file) or calls download_file (no fetch), sync does not
\* raise, and the result it returns holds every configured file as a
\* success, no failure and total_bytes 0.
C12_DryRunTouchesNothing ==
  /\ [][DryRun => fs' = fs /\ clock' = clock /\ call' = call /\ log' = log]_vars
  /\ [](DryRun =>
          /\ call = NoCall
          /\ log = << >>
          /\ pc # "raised"
          /\ result.failed_files = << >> /\ source_result.failed_files = << >>
          /\ result.total_bytes = 0 /\ source_result.total_bytes = 0
          /\ pc = "done" => result.successful_files = AllIds)

\* A dry run that has returned, with three files, on a disk where the
\* output directory could not have been made.
C12_Witness ==
  /\ DryRun
  /\ pc = "done"
  /\ Len(AllIds) = 3
  /\ result.successful_files = AllIds
  /\ fs = WithOutBlocked

\* The lengths of the bytes fetched by the first k download_file calls of
\* sync that returned, summed.
RECURSIVE FetchedBytes(_)
FetchedBytes(k) ==
  IF k = 0 THEN 0
  ELSE FetchedBytes(k - 1)
         + (IF log[k].call.out.exc = "" THEN Len(log[k].call.out.fetched.v) ELSE 0)

C14_IsSuccessIffNoFailures ==
  /\ IsSuccess(result) <=> result.failed_files = << >>
  /\ IsSuccess(source_result) <=> source_result.failed_files = << >>

\* A merged result with a success and a failure, and a source under way
\* with a success only.
C14_Witness ==
  /\ pc = "files"
  /\ result.successful_files # << >> /\ result.failed_files # << >>
  /\ ~IsSuccess(result)
  /\ source_result.successful_files # << >> /\ IsSuccess(source_result)

\* The repository identifier with every "/" turned into "_".
Underscored(repo) ==
  [k \in 1..Len(repo) |-> IF repo[k] = ChSlash THEN Ord("_") ELSE repo[k]]

\* What follows the last "/" of a file path.
BaseName(file_path) ==
  SubSeq(file_path,
         1 + CHOOSE k \in 0..Len(file_path) :
               /\ k > 0 => file_path[k] = ChSlash
               /\ \A j \in (k + 1)..Len(file_path) : file_path[j] # ChSlash,
         Len(file_path))

\* The destination the claim gives for a file, written as a path string
\* under the output root "out".
Destination(preserve_structure, repo, file_path) ==
  IF preserve_structure
    THEN PathOf(Str(<<"o", "u", "t", "/">>) \o Underscored(repo) \o <<ChSlash>> \o file_path)
    ELSE PathOf(Str(<<"o", "u", "t", "/">>) \o BaseName(file_path))

\* C17: every download_file call of sync is given as output path, with
\* preserve_structure, output_dir / the repository with "/" replaced by
\* "_" / the file's path in the repository, and without it output_dir /
\* the file's base name; a call that returns has left the returned bytes
\* in a file at that place.
C17_DestinationPath ==
  \A k \in 1..Len(log) :
    /\ log[k].call.output_path
         = PyVal(Destination(opts.preserve_structure, log[k].call.repo,
                             log[k].call.file_path))
    /\ log[k].call.out.exc = "" =>
         /\ IsFile(log[k].call.out.fs, Resolve(log[k].call.output_path.v))
         /\ log[k].call.out.fs[Resolve(log[k].call.output_path.v)].content
              = log[k].call.out.ret.v

\* The file d/a.txt of o/r saved as out/o_r/d/a.txt.
C17_Witness ==
  /\ opts.preserve_structure
  /\ Len(log) = 2
  /\ log[2].call.file_path = Str(<<"d", "/", "a", ".", "t", "x", "t">>)
  /\ log[2].call.out.exc = ""
  /\ log[2].call.output_path.v
       = PathOf(Str(<<"o", "u", "t", "/", "o", "_", "r", "/", "d", "/", "a", ".", "t", "x", "t">>))
  /\ IsFile(fs, Cwd \o <<Str(<<"o", "u", "t">>), Str(<<"o", "_", "r">>), Str(<<"d">>),
                         Str(<<"a", ".", "t", "x", "t">>)>>)

\* The j-th and the k-th download_file call of sync were given the same
\* output path, both fetched their content and the disk refused neither.
Collide(j, k) ==
  /\ j < k
  /\ log[j].call.output_path = log[k].call.output_path
  /\ BaseName(log[j].call.file_path) = BaseName(log[k].call.file_path)
  /\ ~log[j].call.out.fetched.none /\ ~log[k].call.out.fetched.none
  /\ log[j].call.fault = "none" /\ log[k].call.fault = "none"

\* No later call was given the output path of the k-th.
LastAt(k) ==
  \A m \in (k + 1)..Len(log) : log[m].call.output_path # log[k].call.output_path

\* C18: in flattened mode, when two configured files have the same base
\* name and both are fetched, both are recorded as successes and neither as
\* a failure, and when sync returns the one file at their destination
\* holds what was fetched for the later one (with the configured rules
\* applied).
C18_LastWriteWins ==
  (pc = "done" /\ ~opts.dry_run /\ ~opts.preserve_structure) =>
    \A j \in 1..Len(log) : \A k \in 1..Len(log) :
      Collide(j, k) =>
        /\ Count(result.successful_files, log[j].id) >= 1
        /\ Count(result.successful_files, log[k].id) >= 1
        /\ \A m \in 1..Len(result.failed_files) :
             result.failed_files[m].id \notin {log[j].id, log[k].id}
        /\ LastAt(k) =>
             /\ IsFile(fs, Resolve(log[k].call.output_path.v))
             /\ fs[Resolve(log[k].call.output_path.v)].content
                  = SubstituteEnvVars(log[k].call.out.fetched.v,
                                      EnvList(config.envs)).content

\* The same with no rule configured, where the defect of C3 cannot show.
LastWriteWinsWithoutRules == config.envs = << >> => C18_LastWriteWins

\* The identifiers of the entries of a sequence, in its order.
Ids(entries) == [k \in 1..Len(entries) |-> entries[k].id]

Returned(entry) == entry.call.out.exc = ""
Raised(entry) == entry.call.out.exc # ""

\* C19: the files are processed in configuration order (sources as
\* declared, the files of a source as declared), and the successes so far,
\* those merged followed by those of the source under way, are the
\* processed files that succeeded in the order they were processed; so
\* are the failures.
C19_OutcomesInOrder ==
  /\ \A k \in 1..Len(log) : log[k].id = AllIds[k]
  /\ (pc \in {"files", "done"} /\ ~opts.dry_run) =>
       /\ result.successful_files \o source_result.successful_files
            = Ids(SelectSeq(log, Returned))
       /\ Ids(result.failed_files) \o Ids(source_result.failed_files)
            = Ids(SelectSeq(log, Raised))
  /\ (pc \in {"files", "done"} /\ opts.dry_run) =>
       result.successful_files \o source_result.successful_files
         = SubSeq(AllIds, 1, Processed)
  /\ pc = "done" => source_result = NewSyncResult

\* Two sources; the first file of the first source and the file of the
\* second succeed, the file between them fails.
C19_Witness ==
  /\ pc = "done"
  /\ Len(config.sources) = 2
  /\ Len(AllIds) = 3
  /\ AllIds[1] # AllIds[3]
  /\ result.successful_files = <<AllIds[1], AllIds[3]>>
  /\ Ids(result.failed_files) = <<AllIds[2]>>

\* The disk refused the directory or the file of a call.
Refused(entry) == entry.call.fault # "none"

FailedWithOSError(failure) == failure.error.exc = "OSError"

\* C23: when making the parent directory or opening the destination file
\* is refused for a file, download_file raises OSError and returns
\* nothing, the file is recorded as a failure with that OSError and not as
\* a success, sync does not raise, and the files after it are processed:
\* when sync returns every configured file has had its call.
C23_FilesystemErrorIsFailure ==
  /\ \A k \in 1..Len(log) :
       Refused(log[k]) => log[k].call.out.exc = "OSError" /\ log[k].call.out.ret = PyNone
  /\ Ids(SelectSeq(result.failed_files \o source_result.failed_files, FailedWithOSError))
       = Ids(SelectSeq(log, Refused))
  /\ log # << >> =>
       /\ Len(result.successful_files) + Len(source_result.successful_files)
            = Len(SelectSeq(log, Returned))
       /\ pc # "raised"
  /\ (pc = "done" /\ ~opts.dry_run) => Len(log) = Len(AllIds)

\* The first file refused at mkdir, the two after it saved.
C23_Witness ==
  /\ pc = "done"
  /\ Len(log) = 3
  /\ log[1].call.fault = "mkdir"
  /\ result.failed_files[1].id = AllIds[1]
  /\ result.failed_files[1].error.exc = "OSError"
  /\ result.successful_files = <<AllIds[2], AllIds[3]>>
  /\ IsFile(fs, Resolve(log[3].call.output_path.v))

(***************************************************************************)
(* Claims about main.                                                      *)
(***************************************************************************)

\* main has exited after its sync call returned a result.
ExitedAfterSync == pc = "exited" /\ src_i > Len(config.sources)

\* C15: when sync has returned and no pull request was asked for, main
\* exits with 0 if the result's is_success is true; and whenever
\* is_success is false it exits with 1, having logged after the summary
\* line one error line per failure, in order, with the file's identifier
\* and its exception.
C15_ExitCodeFollowsResult ==
  ExitedAfterSync =>
    /\ (IsSuccess(result) /\ ~args.create_pr) =>
          exit_code = PyVal(0) /\ errors = << >>
    /\ ~IsSuccess(result) =>
          /\ exit_code = PyVal(1)
          /\ Len(errors) = 1 + Len(result.failed_files)
          /\ \A k \in 1..Len(result.failed_files) :
               /\ errors[k + 1].id = result.failed_files[k].id
               /\ errors[k + 1].error = result.failed_files[k].error

\* A run with two failures and a success between them.
C15_Witness ==
  /\ ExitedAfterSync
  /\ exit_code = PyVal(1)
  /\ Len(result.failed_files) = 2
  /\ result.successful_files = <<AllIds[2]>>
  /\ errors[2].id = AllIds[1] /\ errors[2].error.exc = "FileNotFoundError"
  /\ errors[3].id = AllIds[3]

\* C16: when main was run with --create-pr and without --dry-run, and sync
\* returned a result with no failure and at least one file, main has
\* called the push of the branch, and it exits with 0 where the
\* environment lets the push and the pull request succeed.
C16_CreatePrAfterSync ==
  (/\ ExitedAfterSync
   /\ args.create_pr /\ ~opts.dry_run
   /\ IsSuccess(result) /\ result.successful_files # << >>) =>
    /\ pr_calls # << >> /\ pr_calls[1] = "setup_git_and_push"
    /\ CreatePullRequest(git).ok =>
          /\ pr_calls = <<"setup_git_and_push", "create_pull_request">>
          /\ exit_code = PyVal(0)

\* A failure in the first source followed by a success in the second.
C6_Witness ==
  /\ pc = "done"
  /\ Len(AllIds) = 3
  /\ FailureCount(result) = 1
  /\ result.failed_files[1].id = AllIds[1]
  /\ result.failed_files[1].error.exc = "FileNotFoundError"
  /\ result.successful_files = <<AllIds[2], AllIds[3]>>
  /\ Len(log) = 3

\* The sync of main was interrupted at a file.
InterruptedRun == pc \in {"interrupted", "exited"} /\ src_i \in 1..Len(config.sources)

\* The files the loops of sync went through before the one they are at.
FilesProcessed == FilesBefore(config.sources, src_i - 1) + file_j - 1

InterruptRecorded(res) ==
  \E k \in 1..Len(res.failed_files) : res.failed_files[k].error.exc = "KeyboardInterrupt"

\* C25: a KeyboardInterrupt while sync processes files ends the run: no
\* download_file call is made for the file it arrived at or for those after
\* it, no failure is recorded for it, and main exits with code 130 without
\* an error line.
C25_InterruptExits130 ==
  /\ [](~InterruptRecorded(result) /\ ~InterruptRecorded(source_result))
  /\ [](InterruptedRun =>
         /\ Len(log) = (IF opts.dry_run THEN 0 ELSE FilesProcessed)
         /\ Len(result.successful_files) + Len(result.failed_files)
              + Len(source_result.successful_files) + Len(source_result.failed_files)
              = FilesProcessed
         /\ pc = "exited" => exit_code = PyVal(130) /\ errors = << >> /\ pr_calls = << >>)
  /\ [][pc = "interrupted" => log' = log /\ call' = call /\ fs' = fs /\ pc' = "exited"]_vars

\* Interrupted at the second of at least two files, after one download.
C25_Witness ==
  /\ InterruptedRun
  /\ pc = "exited"
  /\ exit_code = PyVal(130)
  /\ Len(log) = 1
  /\ FilesProcessed = 1
  /\ FilesBefore(config.sources, Len(config.sources)) >= 2

\* The call failed before the save: no fetch path gave content, or the
\* substitution raised.
FailedBeforeSave(entry) == entry.call.out.exc \notin {"", "OSError"}

TotalBytes == result.total_bytes + source_result.total_bytes

\* C27: a file whose fetch failed on every path, or whose substitution
\* raised, is a failure that leaves the file system as it was, its
\* destination included, returns nothing and adds nothing to total_bytes.
C27_FailureWritesNothing ==
  /\ [](\A k \in 1..Len(log) :
          FailedBeforeSave(log[k]) =>
            /\ log[k].call.out.fs = log[k].call.fs_before
            /\ log[k].call.out.ret = PyNone
            /\ log[k].call.out.exc \in {"FileNotFoundError", "TypeError"})
  /\ [][(Len(log') = Len(log) + 1 /\ FailedBeforeSave(log'[Len(log')])) =>
          /\ fs' = fs
          /\ TotalBytes' = TotalBytes
          /\ Len(source_result'.failed_files) = Len(source_result.failed_files) + 1
          /\ source_result'.successful_files = source_result.successful_files]_vars

\* A file that was not found and a file whose substitution raised, neither
\* of them on the disk when sync returns.
C27_Witness ==
  /\ pc = "done"
  /\ Len(log) >= 2
  /\ log[1].call.out.exc = "FileNotFoundError"
  /\ log[2].call.out.exc = "TypeError"
  /\ ~Exists(fs, Resolve(log[1].call.output_path.v))
  /\ ~Exists(fs, Resolve(log[2].call.output_path.v))
  /\ TotalBytes = 0

\* A place is the output directory or lies under it.
Inside(root, place) == Len(place) >= Len(root) /\ SubSeq(place, 1, Len(root)) = root

\* The places sync has made or written: those that were not there before.
Written == DOMAIN fs \ DOMAIN RootOnly

\* C28: whatever the configured file paths are, absolute ones and ones with
\* ".." among them, every directory and file sync makes lies inside the
\* output directory, with and without preserve_structure.
C28_WritesInsideOutputRoot ==
  \A place \in Written : Inside(Resolve(opts.output_dir), place)

\* What holds: flattened, sync writes inside the output directory only.
FlattenedWritesInside ==
  ~opts.preserve_structure => \A place \in Written : Inside(Resolve(opts.output_dir), place)

\* C29: with preserve_structure, two download_file calls of sync for files
\* that differ in repository or in path are given different destinations,
\* and so are two for one repository at two references.
C29_DestinationsDistinct ==
  opts.preserve_structure =>
    \A j \in 1..Len(log) : \A k \in 1..Len(log) :
      (j # k /\ log[j].id # log[k].id) =>
        Resolve(log[j].call.output_path.v) # Resolve(log[k].call.output_path.v)

\* Lists an envs file can hold: literal rules, a name declared twice, a
\* rule with flags, a regex rule.
RuleATwice == Literal(RuleA.name, RuleB.value)
RuleAFlagged == [name |-> RuleA.name, value |-> RuleA.value, flags |-> Str(<<"i">>)]
EnvsFiles ==
  {<< >>, <<RuleA>>, <<RuleA, RuleB>>, <<RuleA, RuleATwice>>, <<RuleAFlagged>>,
   <<RuleCheckout(Str(<<"i">>))>>}

\* The envs files that load to the configuration of the run.
DeclaredEnvs == {data \in EnvsFiles : LoadEnvsFile(data) = [exc |-> "", envs |-> config.envs]}

\* The rules the loop of _substitute_env_vars goes through are the entries
\* of data, one for one.
ReceivesRules(env_vars, data) ==
  /\ Len(EnvIter(env_vars)) = Len(data)
  /\ \A j \in 1..Len(data) :
       /\ EnvIter(env_vars)[j].py = "dict"
       /\ EnvIter(env_vars)[j].d = data[j]

\* C26: in every download_file call of sync the substitution engine is
\* given the rules of the envs file the configuration was loaded from: as
\* many, in the same order, each with its name, value, regex and flags.
C26_EngineReceivesDeclaredRules ==
  \A k \in 1..Len(log) : \A data \in DeclaredEnvs :
    ReceivesRules(log[k].call.env_vars, data)

\* What the engine is given instead: the names of the dict sync builds.
EngineReceivesNames ==
  \A k \in 1..Len(log) :
    /\ log[k].call.env_vars = EnvVarsOf(config.envs)
    /\ \A j \in 1..Len(EnvIter(log[k].call.env_vars)) :
         EnvIter(log[k].call.env_vars)[j].py = "str"

(***************************************************************************)
(* Claims about the git operations.                                        *)
(***************************************************************************)

\* The operation ended at a subprocess that failed.
EndedByFailure ==
  /\ git_out.ran # << >>
  /\ git_out.ran[Len(git_out.ran)] \in git_env.failing

\* setup_git_and_push: git add failed, or create_branch returned False.
StagingOrBranchFailed ==
  /\ git_out.op = "setup_git_and_push"
  /\ \/ StageCommand(git_out.files) \in git_env.failing
     \/ CreateBranch(git_env, GitStart, TRUE).ret = PyVal(FALSE)

CommitsOrPushes ==
  \E k \in 1..Len(git_out.ran) :
    git_out.ran[k] \in {"commit", "push", "push --force-with-lease"}

\* C24: create_branch, add_files_and_push and setup_git_and_push never
\* raise and return False when a git subprocess of theirs, the git user
\* configuration included, ended them by failing; setup_git_and_push neither
\* commits nor pushes when staging or branch creation failed.
C24_GitFailuresReturnFalse ==
  git_out.done =>
    /\ git_out.exc = ""
    /\ EndedByFailure => git_out.ret = PyVal(FALSE)
    /\ StagingOrBranchFailed => ~CommitsOrPushes

\* What holds of the three operations: only the configuration step of
\* setup_git_and_push lets an exception out.
GitRaisesOnlyFromSetupConfig ==
  git_out.done =>
    /\ git_out.exc # "" =>
         /\ git_out.op = "setup_git_and_push"
         /\ ~git_env.configured
         /\ git_out.ran[Len(git_out.ran)] \in {"config user.name", "config user.email"}
    /\ git_out.exc = "" /\ EndedByFailure => git_out.ret = PyVal(FALSE)
    /\ StagingOrBranchFailed => ~CommitsOrPushes

====
